---------------------------- MODULE Spec2Model ----------------------------
(***************************************************************************)
(* Snapshot lifecycle manager of kv_cache_saver.py: the naming scheme, the *)
(* rotation policy, the save / backup / restore cycles and the control     *)
(* loop, as a state machine over the storage directory.                    *)
(*                                                                         *)
(* Strings are sequences of one-character strings, so that split, replace, *)
(* int() and the glob patterns are computed the way the code computes      *)
(* them.  An optional value (Optional[...]) is <<>> for None and <<v>> for *)
(* a value.                                                                *)
(***************************************************************************)
EXTENDS Integers, Sequences, FiniteSets, TLC

-----------------------------------------------------------------------------
(* Bounds of the model *)

\* number of slots the server has (slot ids 0..NumSlots-1)
NumSlots == 2
\* number of distinct slot contents the server can hold
MaxContent == 1
\* number of iterations of the main loop that are explored
MaxTicks == 1
\* largest value explored for KV_MAX_FILES and KV_MAX_BACKUPS
MaxCap == 2
\* largest slot id explored by the naming specification
MaxNameSlot == 11
\* largest clock value explored by the naming specification
MaxNameClock == 2
\* number of storage operations explored by the cycles specification
MaxCycles == 2
\* number of console lines explored by the console specification
MaxCommands == 2
\* largest number of entries of a slot listing explored by the discovery
\* specification
MaxListing == 2
\* number of loop iterations explored by the serialization specification
MaxSerialTicks == 3
\* largest modification time explored by the session list specification
MaxSessionClock == 1
\* files of a directory of the rotation specification
MaxRotationFiles == 3
\* rotations run one after the other in the rotation specification
MaxRotations == 2
\* number of steps explored by the fingerprint specification
MaxHashSteps == 3
\* largest retry budget explored by the health check specification
MaxRetries == 4

-----------------------------------------------------------------------------
(* Program constants *)

\* KV_SAVE_INTERVAL, KV_BACKUP_INTERVAL (seconds)
SAVE_INTERVAL == 1
BACKUP_INTERVAL == 2
\* LLAMA_SLOT_ID
SLOT_ID == 3
\* width of the timestamp %Y%m%d%H%M%S
TsWidth == 14
\* time.sleep(1) of a tick, time.sleep(5) after an unexpected error
TickSleep == 1
ErrorSleep == 5

-----------------------------------------------------------------------------
(* Strings *)

SLOT_SEP == <<"_", "s", "l", "o", "t">>
BIN_EXT == <<".", "b", "i", "n">>
UNDERSCORE == <<"_">>
BACKUP_LABEL == <<"b", "a", "c", "k", "u", "p">>

DigitChars == <<"0", "1", "2", "3", "4", "5", "6", "7", "8", "9">>

IsDigitChar(c) == \E i \in 1..10 : DigitChars[i] = c

DigitVal(c) == (CHOOSE i \in 1..10 : DigitChars[i] = c) - 1

\* str.isdigit(): non-empty and every character a digit
IsDigit(s) == Len(s) > 0 /\ \A i \in 1..Len(s) : IsDigitChar(s[i])

\* str.isalnum() of one character, over the characters the model uses
IsAlnumChar(c) == c \notin {"_", "-", ".", "+", " ", "!"}

StartsWith(s, p) == Len(s) >= Len(p) /\ SubSeq(s, 1, Len(p)) = p

EndsWith(s, p) == Len(s) >= Len(p) /\ SubSeq(s, Len(s) - Len(p) + 1, Len(s)) = p

\* min(hits), 0 when there is none
FirstOf(hits) == IF hits = {} THEN 0 ELSE CHOOSE i \in hits : \A j \in hits : i <= j

\* s.find(sep) + 1: index of the first occurrence of sep in s, 0 when there
\* is none
Find(s, sep) ==
  FirstOf({i \in 1..(Len(s) - Len(sep) + 1) :
             s[i] = sep[1] /\ SubSeq(s, i, i + Len(sep) - 1) = sep})

\* sep in s
Contains(s, sep) == Find(s, sep) # 0

RECURSIVE Split(_, _)
\* s.split(sep), the first occurrence of sep being at i
SplitAt(s, sep, i) ==
  IF i = 0 THEN <<s>>
  ELSE <<SubSeq(s, 1, i - 1)>> \o Split(SubSeq(s, i + Len(sep), Len(s)), sep)

\* s.split(sep)
Split(s, sep) == SplitAt(s, sep, Find(s, sep))

\* s.split(sep, 1), the first occurrence of sep being at i
Split1At(s, sep, i) ==
  IF i = 0 THEN <<s>>
  ELSE <<SubSeq(s, 1, i - 1), SubSeq(s, i + Len(sep), Len(s))>>

\* s.split(sep, 1)
Split1(s, sep) == Split1At(s, sep, Find(s, sep))

RECURSIVE Concat(_)
Concat(parts) == IF parts = <<>> THEN <<>> ELSE Head(parts) \o Concat(Tail(parts))

\* s.replace(old, "")
Remove(s, old) == Concat(Split(s, old))

RECURSIVE DigitsVal(_)
DigitsVal(s) == IF s = <<>> THEN 0 ELSE 10 * DigitsVal(SubSeq(s, 1, Len(s) - 1)) + DigitVal(s[Len(s)])

\* int(s): <<n>>, or <<>> where int() raises ValueError
ParseInt(s) ==
  IF IsDigit(s) THEN <<DigitsVal(s)>>
  ELSE IF Len(s) >= 2 /\ s[1] = "-" /\ IsDigit(Tail(s)) THEN <<0 - DigitsVal(Tail(s))>>
  ELSE IF Len(s) >= 2 /\ s[1] = "+" /\ IsDigit(Tail(s)) THEN <<DigitsVal(Tail(s))>>
  ELSE <<>>

RECURSIVE Str(_)
\* str(n) of an integer
Str(n) ==
  IF n < 0 THEN <<"-">> \o Str(0 - n)
  ELSE IF n < 10 THEN <<DigitChars[n + 1]>>
  ELSE Str(n \div 10) \o <<DigitChars[(n % 10) + 1]>>

RECURSIVE ZeroPad(_, _)
ZeroPad(s, w) == IF Len(s) >= w THEN s ELSE ZeroPad(<<"0">> \o s, w)

\* datetime.now().strftime("%Y%m%d%H%M%S") of the clock value t: fixed width,
\* digits only, ordered as the clock
FormatTs(t) == ZeroPad(Str(t), TsWidth)

RECURSIVE StrLess(_, _)
\* a < b of two strings of digits (the keys of timestamp_groups)
StrLess(a, b) ==
  IF b = <<>> THEN FALSE
  ELSE IF a = <<>> THEN TRUE
  ELSE IF a[1] # b[1] THEN DigitVal(a[1]) < DigitVal(b[1])
  ELSE StrLess(Tail(a), Tail(b))

\* max(keys)
MaxStr(keys) == CHOOSE k \in keys : \A j \in keys : ~StrLess(k, j)

-----------------------------------------------------------------------------
(* Naming and pattern scheme *)

\* f"{base}_slot{slot_id}_{timestamp}.bin"
CacheFileName(base, slot_id, timestamp) ==
  base \o SLOT_SEP \o Str(slot_id) \o UNDERSCORE \o timestamp \o BIN_EXT

\* f"{name}_{cache_name}"
BackupFileName(name, cache_name) == name \o UNDERSCORE \o cache_name

\* lines 225-228: parts = filename.split("_slot")
SlotIdOfParts(parts) ==
  IF Len(parts) >= 2 THEN ParseInt(Split(parts[2], UNDERSCORE)[1]) ELSE <<>>

extract_slot_id_from_filename(filename) == SlotIdOfParts(Split(filename, SLOT_SEP))

\* lines 246-247: the text after the slot id, without ".bin"
TimestampOfText(timestamp) ==
  IF IsDigit(timestamp) /\ Len(timestamp) = TsWidth THEN <<timestamp>> ELSE <<>>

\* lines 242-244: after_slot = parts[1].split("_", 1)
TimestampOfAfterSlot(after_slot) ==
  IF Len(after_slot) >= 2 THEN TimestampOfText(Remove(after_slot[2], BIN_EXT)) ELSE <<>>

\* lines 238-241: parts = filename.split("_slot")
TimestampOfParts(parts) ==
  IF Len(parts) >= 2 THEN TimestampOfAfterSlot(Split1(parts[2], UNDERSCORE)) ELSE <<>>

extract_timestamp_from_filename(filename) == TimestampOfParts(Split(filename, SLOT_SEP))

\* fnmatch of a name against f"{prefix}_slot*_*.bin"
GlobMatch(prefix, name) ==
  LET p == prefix \o SLOT_SEP
  IN /\ Len(name) >= Len(p) + 1 + Len(BIN_EXT)
     /\ StartsWith(name, p)
     /\ EndsWith(name, BIN_EXT)
     /\ Contains(SubSeq(name, Len(p) + 1, Len(name) - Len(BIN_EXT)), UNDERSCORE)


-----------------------------------------------------------------------------
(* State *)

VARIABLES
  base_name,              \* _base_name_var: the session, fixed at startup
  MAX_FILES,              \* KV_MAX_FILES
  MAX_BACKUPS,            \* KV_MAX_BACKUPS
  files,                  \* SAVE_DIR: name of each .bin file -> [mtime, content]
  hashes,                 \* SAVE_DIR: name of each .bin file that has a .hash sidecar -> its text
  now,                    \* the clock, in seconds
  pc,                     \* position of main()
  running,                \* the global running
  shutdown_signals_count, \* the global shutdown_signals_count
  exit_code,              \* <<>> while the process lives, <<status>> once it has exited
  last_save_time,         \* local of main()
  last_backup_time,       \* local of main()
  current_time,           \* local of main()
  slot_id_var,            \* _slot_id_var
  ticks,                  \* number of loop iterations started
  last,                   \* what the operation executed by the last step did
  naming                  \* the triple, name and decoding of the naming specification

vars == <<base_name, MAX_FILES, MAX_BACKUPS, files, hashes, now, pc, running,
          shutdown_signals_count, exit_code, last_save_time, last_backup_time,
          current_time, slot_id_var, ticks, last, naming>>

configVars == <<base_name, MAX_FILES, MAX_BACKUPS>>

SlotIds == 0..(NumSlots - 1)
Contents == 1..MaxContent

Range(f) == {f[x] : x \in DOMAIN f}

Restrict(f, S) == [x \in S |-> f[x]]

Min(a, b) == IF a <= b THEN a ELSE b
Max(a, b) == IF a >= b THEN a ELSE b

RECURSIVE SortedSeq(_)
\* sorted(S) of a set of integers
SortedSeq(S) ==
  IF S = {} THEN <<>>
  ELSE LET m == CHOOSE x \in S : \A y \in S : x <= y IN <<m>> \o SortedSeq(S \ {m})

RECURSIVE SortedInts(_)
\* sorted(seq) of a list of integers, repetitions kept
SortedInts(seq) ==
  IF seq = <<>> THEN <<>>
  ELSE LET i == CHOOSE k \in 1..Len(seq) : \A j \in 1..Len(seq) : seq[k] <= seq[j]
       IN <<seq[i]>> \o SortedInts(SubSeq(seq, 1, i - 1) \o SubSeq(seq, i + 1, Len(seq)))

RECURSIVE SortedStrDesc(_)
\* sorted(keys, reverse=True) of a set of timestamps
SortedStrDesc(S) ==
  IF S = {} THEN <<>> ELSE LET m == MaxStr(S) IN <<m>> \o SortedStrDesc(S \ {m})

-----------------------------------------------------------------------------
(* The names of the run, decoded once *)

\* the session of the process specification
SessionName == <<"s">>

\* the clock at startup; earlier runs wrote their files at clock 0 and 1
StartClock == 2

\* the names typed after "backup" on the console
TypedBackupNames == {<<"a">>, <<"b", "!">>}

\* the latest clock value a run of MaxTicks iterations can reach
MaxTime == StartClock + MaxTicks * ErrorSleep

KnownCacheNames ==
  {CacheFileName(SessionName, k, FormatTs(t)) : k \in 0..(NumSlots - 1), t \in 0..MaxTime}

\* every name a file of the directory can have
KnownNames ==
  KnownCacheNames \cup
  {BackupFileName(l, n) : l \in {BACKUP_LABEL} \cup TypedBackupNames, n \in KnownCacheNames}

\* the decoders and the two patterns, tabulated over the known names: the
\* same values, computed once instead of once per file and state
SlotIdTable == [n \in KnownNames |-> extract_slot_id_from_filename(n)] @@ <<>>

TimestampTable == [n \in KnownNames |-> extract_timestamp_from_filename(n)] @@ <<>>

GlobTable ==
  [p \in {SessionName, BACKUP_LABEL \o UNDERSCORE \o SessionName} |->
     [n \in KnownNames |-> GlobMatch(p, n)] @@ <<>>] @@ <<>>

SlotIdOf(n) ==
  IF n \in KnownNames THEN SlotIdTable[n] ELSE extract_slot_id_from_filename(n)

TimestampOf(n) ==
  IF n \in KnownNames THEN TimestampTable[n] ELSE extract_timestamp_from_filename(n)

Matches(prefix, n) ==
  IF prefix \in DOMAIN GlobTable /\ n \in KnownNames
  THEN GlobTable[prefix][n] ELSE GlobMatch(prefix, n)

-----------------------------------------------------------------------------
(* Storage directory *)

\* sha256 of a content: one hash per content
FileHash(content) == 1000 + content

get_cache_pattern_prefix == base_name

\* "backup_" + get_cache_pattern()
get_backup_pattern_prefix == BACKUP_LABEL \o UNDERSCORE \o base_name

\* SAVE_DIR.glob(get_cache_pattern())
CacheNames(fs) == {n \in DOMAIN fs : Matches(get_cache_pattern_prefix, n)}

\* SAVE_DIR.glob(get_backup_pattern())
BackupNames(fs) == {n \in DOMAIN fs : Matches(get_backup_pattern_prefix, n)}

RECURSIVE SortedByMtime(_, _)
\* the lists that names.sort(key=st_mtime) can produce: ascending
\* modification time, files of equal time in the order the directory
\* listing returned them, which is any order
SortedByMtime(fs, names) ==
  IF names = {} THEN {<<>>}
  ELSE LET oldest == {n \in names : \A m \in names : fs[n].mtime <= fs[m].mtime}
       IN UNION {{<<n>> \o t : t \in SortedByMtime(fs, names \ {n})} : n \in oldest}

\* the files that can be first of names.sort(key=st_mtime, reverse=True)
Newest(fs, names) == {n \in names : \A m \in names : fs[n].mtime >= fs[m].mtime}

\* seq[:stop] of Python
SliceTo(seq, stop) ==
  IF stop >= 0 THEN SubSeq(seq, 1, Min(stop, Len(seq)))
  ELSE SubSeq(seq, 1, Max(Len(seq) + stop, 0))

\* the loop of rotate_cache_files / rotate_backups over names with maximum
\* max_count: the possible directories afterwards and the files deleted
Rotate(fs, hs, names, max_count) ==
  IF Cardinality(names) <= max_count
  THEN {[files |-> fs, hashes |-> hs, deleted |-> {}]}
  ELSE {LET files_to_delete == Range(SliceTo(sorted, 0 - max_count))
        IN [files |-> Restrict(fs, DOMAIN fs \ files_to_delete),
            hashes |-> Restrict(hs, DOMAIN hs \ files_to_delete),
            deleted |-> {[name |-> n, mtime |-> fs[n].mtime] : n \in files_to_delete}] :
        sorted \in SortedByMtime(fs, names)}

rotate_cache_files(fs, hs) == Rotate(fs, hs, CacheNames(fs), MAX_FILES)

rotate_backups(fs, hs) == Rotate(fs, hs, BackupNames(fs), MAX_BACKUPS)

\* stamped: pairs <<file, decoded timestamp>>; the files grouped by timestamp,
\* those without a timestamp left out
GroupByTimestamp(stamped) ==
  [ts \in {p[2][1] : p \in {q \in stamped : q[2] # <<>>}} |->
     {p[1] : p \in {q \in stamped : q[2] = <<ts>>}}]

\* timestamp_groups: timestamp -> the files of names that decode to it
TimestampGroups(names) == GroupByTimestamp({<<n, TimestampOf(n)>> : n \in names})

\* get_cache_files(slot_id), as a set
get_cache_files(fs, slot_id) ==
  {n \in CacheNames(fs) : Contains(n, SLOT_SEP \o Str(slot_id) \o UNDERSCORE)}

\* lines 612-629: the slots of the group with the greatest timestamp
SlotsOfLatestGroup(cache_files, timestamp_groups) ==
  IF cache_files = {} \/ DOMAIN timestamp_groups = {} THEN <<>>
  ELSE SortedSeq({d[1] : d \in {SlotIdOf(n) :
                                  n \in timestamp_groups[MaxStr(DOMAIN timestamp_groups)]}
                                \ {<<>>}})

\* lines 603-610: the files grouped by timestamp
SlotsOfCacheFiles(cache_files) == SlotsOfLatestGroup(cache_files, TimestampGroups(cache_files))

get_slots_with_latest_timestamp(fs) == SlotsOfCacheFiles(CacheNames(fs))

\* the first of the files found, newest first: <<>> or <<name>>
FirstFound(fs, found) ==
  IF found = {} THEN <<>> ELSE <<CHOOSE n \in Newest(fs, found) : TRUE>>

\* first file of get_cache_files(slot_id) with the timestamp: <<>> or <<name>>
get_cache_file_for_timestamp(fs, slot_id, timestamp) ==
  FirstFound(fs, {n \in get_cache_files(fs, slot_id) : TimestampOf(n) = <<timestamp>>})

\* get_saved_hash: <<>> without a sidecar, else the hash it holds
get_saved_hash(hs, name) == IF name \in DOMAIN hs THEN <<hs[name]>> ELSE <<>>

\* save_hash: the sidecars afterwards; a write that fails is passed over
save_hash(hs, name, file_hash, writable) ==
  IF writable
  THEN [n \in DOMAIN hs \cup {name} |-> IF n = name THEN file_hash ELSE hs[n]]
  ELSE hs

\* a fingerprint that never looks at the sidecar
HashUncached(fs, hs, name, writable) ==
  [hash |-> FileHash(fs[name].content),
   hashes |-> save_hash(hs, name, FileHash(fs[name].content), writable),
   content_read |-> TRUE]

\* lines 663-673: the hash returned, the sidecars afterwards and whether the
\* content of the file was read; writable: whether save_hash can write
HashCached(fs, hs, name, writable) ==
  IF get_saved_hash(hs, name) # <<>>
  THEN [hash |-> get_saved_hash(hs, name)[1], hashes |-> hs, content_read |-> FALSE]
  ELSE [hash |-> FileHash(fs[name].content),
        hashes |-> save_hash(hs, name, FileHash(fs[name].content), writable),
        content_read |-> TRUE]

\* get_file_hash_cached as the backup cycles call it, the sidecar writable
get_file_hash_cached(fs, hs, name) == HashCached(fs, hs, name, TRUE)

-----------------------------------------------------------------------------
(* Slot discovery *)

\* KV_MAX_SLOTS_TO_CHECK
MAX_SLOTS_TO_CHECK == 2

\* what GET /slots/<id> gives: status 200 with the two counters of the
\* slot, another status, or an exception (timeout, connection error, a body
\* that is not JSON)
SlotStatusAnswers ==
  {[status |-> "200", n_ctx_used |-> a, n_prompt_tokens |-> b] : a, b \in 0..1} \cup
  {[status |-> st, n_ctx_used |-> 0, n_prompt_tokens |-> 0] : st \in {"503", "exception"}}

\* the answer for a slot id the server does not have
NoSuchSlot == [status |-> "503", n_ctx_used |-> 0, n_prompt_tokens |-> 0]

\* status: slot id -> what its status query gives
StatusOf(status, slot_id) == IF slot_id \in DOMAIN status THEN status[slot_id] ELSE NoSuchSlot

\* a status query answered 200 with a JSON body that is no object (a list,
\* a number, null)
StatusNotObject == [status |-> "200_not_object", n_ctx_used |-> 0, n_prompt_tokens |-> 0]

\* get_slot_info: <<>> (None) unless the status is 200
get_slot_info(answer) ==
  IF answer.status \in {"200", "200_not_object"} THEN <<answer>> ELSE <<>>

\* lines 701-702: slot_info.get raises AttributeError on a body that is no
\* object; is_cache_valid does not catch it
CacheCheckRaises(answer) ==
  get_slot_info(answer) # <<>> /\ answer.status = "200_not_object"

\* a check that takes a slot for valid when its status is not known
CacheAssumedValid(answer) ==
  get_slot_info(answer) = <<>> \/ answer.n_ctx_used > 0 \/ answer.n_prompt_tokens > 0

\* is_cache_valid, lines 693-713
is_cache_valid(answer) ==
  get_slot_info(answer) # <<>> /\ (answer.n_ctx_used > 0 \/ answer.n_prompt_tokens > 0)

\* an element of a listing: an integer, an object with an integer "id", or
\* anything else (an object without an integer id, a string)
ListingItems ==
  {[kind |-> k, id |-> i] : k \in {"int", "object"}, i \in SlotIds} \cup {[kind |-> "other", id |-> 0]}

\* the keys of a listing that is a mapping
ListingKeys == {Str(i) : i \in SlotIds} \cup {<<"0", "0">>, <<"x">>}

\* the sequences of length at most n over S
RECURSIVE SeqsUpTo(_, _)
SeqsUpTo(S, n) ==
  IF n = 0 THEN {<<>>}
  ELSE SeqsUpTo(S, n - 1) \cup {Append(q, x) : q \in {r \in SeqsUpTo(S, n - 1) : Len(r) = n - 1}, x \in S}

\* answers of GET /slots: status 200 with a list, with a mapping (its keys
\* in the order of the body, no key twice) or with another JSON value,
\* another status, or an exception
ListingResponsesOver(n) ==
  {[status |-> "200", kind |-> "list", items |-> q] : q \in SeqsUpTo(ListingItems, n)} \cup
  {[status |-> "200", kind |-> "mapping", items |-> q] :
     q \in {r \in SeqsUpTo(ListingKeys, n) : \A i, j \in 1..Len(r) : r[i] = r[j] => i = j}} \cup
  {[status |-> "200", kind |-> "other", items |-> <<>>],
   [status |-> "503", kind |-> "other", items |-> <<>>],
   [status |-> "exception", kind |-> "other", items |-> <<>>]}

\* the listings of the process specifications: unavailable, or the ids of
\* a set of slots in ascending order
ListingResponses ==
  {[status |-> "503", kind |-> "other", items |-> <<>>]} \cup
  {[status |-> "200", kind |-> "list",
    items |-> [i \in 1..Cardinality(S) |-> [kind |-> "int", id |-> SortedSeq(S)[i]]]] :
     S \in SUBSET SlotIds}

RECURSIVE ListedValid(_, _)
\* lines 727-737: the ids of a list whose slot is valid, in list order
ListedValid(items, status) ==
  IF items = <<>> THEN <<>>
  ELSE (IF Head(items).kind # "other" /\ is_cache_valid(StatusOf(status, Head(items).id))
        THEN <<Head(items).id>> ELSE <<>>) \o ListedValid(Tail(items), status)

RECURSIVE MappedValid(_, _)
\* lines 739-746: int(key) of the keys of a mapping whose slot is valid
MappedValid(keys, status) ==
  IF keys = <<>> THEN <<>>
  ELSE (IF ParseInt(Head(keys)) # <<>> /\ is_cache_valid(StatusOf(status, ParseInt(Head(keys))[1]))
        THEN ParseInt(Head(keys)) ELSE <<>>) \o MappedValid(Tail(keys), status)

RECURSIVE FilterValid(_, _)
\* lines 752-754: the ids of range(MAX_SLOTS_TO_CHECK) whose slot is valid
FilterValid(ids, status) ==
  IF ids = <<>> THEN <<>>
  ELSE (IF is_cache_valid(StatusOf(status, Head(ids))) THEN <<Head(ids)>> ELSE <<>>)
         \o FilterValid(Tail(ids), status)

\* response: what GET /slots gives; status: what each slot's query gives
get_all_slots_with_data(response, status) ==
  IF response.status = "200"
  THEN SortedInts(IF response.kind = "list" THEN ListedValid(response.items, status)
                  ELSE IF response.kind = "mapping" THEN MappedValid(response.items, status)
                  ELSE <<>>)
  ELSE SortedInts(FilterValid(SortedSeq(0..(MAX_SLOTS_TO_CHECK - 1)), status))

RECURSIVE ListedIds(_)
\* lines 727-735: the slot ids a list names, in list order
ListedIds(items) ==
  IF items = <<>> THEN <<>>
  ELSE (IF Head(items).kind # "other" THEN <<Head(items).id>> ELSE <<>>) \o ListedIds(Tail(items))

RECURSIVE MappedIds(_)
\* lines 739-742: int(key) of the keys of a mapping that are numbers
MappedIds(keys) ==
  IF keys = <<>> THEN <<>> ELSE ParseInt(Head(keys)) \o MappedIds(Tail(keys))

\* the slot ids the try block of lines 720-747 checks, in order
BulkIds(response) ==
  IF response.status # "200" THEN <<>>
  ELSE IF response.kind = "list" THEN ListedIds(response.items)
  ELSE IF response.kind = "mapping" THEN MappedIds(response.items)
  ELSE <<>>

\* the position of the first id of ids whose check raises, 0 when none does
FirstRaising(ids, status) ==
  FirstOf({i \in 1..Len(ids) : CacheCheckRaises(StatusOf(status, ids[i]))})

\* get_all_slots_with_data with the exceptions of the checks: an exception
\* raised inside the try block is caught at line 748 and the slots are then
\* enumerated, with slots_with_data as the try block left it; an exception
\* raised by a check of the enumeration leaves the function.  probed: the
\* ids whose status was asked for.
Discovery(response, status) ==
  LET bulk == BulkIds(response)
      enumeration == SortedSeq(0..(MAX_SLOTS_TO_CHECK - 1))
      b == FirstRaising(bulk, status)
      f == FirstRaising(enumeration, status)
      checked == IF b = 0 THEN bulk ELSE SubSeq(bulk, 1, b - 1)
      asked == IF b = 0 THEN bulk ELSE SubSeq(bulk, 1, b)
  IN IF response.status = "200" /\ b = 0
     THEN [enumerated |-> FALSE, raised |-> FALSE, probed |-> Range(asked),
           discovered |-> get_all_slots_with_data(response, status)]
     ELSE IF f > 0
     THEN [enumerated |-> TRUE, raised |-> TRUE, discovered |-> <<>>,
           probed |-> Range(asked) \cup Range(SubSeq(enumeration, 1, f))]
     ELSE [enumerated |-> TRUE, raised |-> FALSE, probed |-> Range(asked) \cup Range(enumeration),
           discovered |-> SortedInts(FilterValid(checked, status) \o FilterValid(enumeration, status))]

\* every list a discovery of the process specifications can return
Discoverable ==
  {get_all_slots_with_data(l, v) : l \in ListingResponses, v \in [SlotIds -> SlotStatusAnswers]}

-----------------------------------------------------------------------------
(* Save cycle *)

\* what the server does with one save request: answers 200 and writes the
\* file with the slot's content, answers 200 without writing it, answers
\* another status, or the request raises
SaveOutcomes ==
  {[status |-> "200", written |-> TRUE, content |-> c] : c \in Contents} \cup
  {[status |-> "200", written |-> FALSE, content |-> 0],
   [status |-> "500", written |-> FALSE, content |-> 0],
   [status |-> "exception", written |-> FALSE, content |-> 0]}

\* a slot counted on the server's acknowledgement alone
SlotSavedByStatus(status, exists) == status = "200"

\* lines 793-805: the slot counts when the status is 200 and the file exists
SlotSaved(status, exists) == status = "200" /\ exists

RECURSIVE SaveLoop(_, _, _, _, _)
RECURSIVE SaveLoopStopAtFailure(_, _, _, _, _)
\* a loop that gives up at the first slot that is not saved
SaveLoopStopAtFailure(fs, slots_with_data, outcomes, timestamp, i) ==
  IF i > Len(slots_with_data)
  THEN [files |-> fs, attempts |-> <<>>, success_count |-> 0]
  ELSE LET slot_id == slots_with_data[i]
           filename == CacheFileName(base_name, slot_id, timestamp)
           o == outcomes[i]
           fs1 == IF o.written
                  THEN [n \in DOMAIN fs \cup {filename} |->
                          IF n = filename THEN [mtime |-> now, content |-> o.content] ELSE fs[n]]
                  ELSE fs
           exists == filename \in DOMAIN fs1
           attempt == [slot |-> slot_id, filename |-> filename,
                       status |-> o.status, exists |-> exists]
           rest == SaveLoopStopAtFailure(fs1, slots_with_data, outcomes, timestamp, i + 1)
       IN IF ~SlotSaved(o.status, exists)
          THEN [files |-> fs1, attempts |-> <<attempt>>, success_count |-> 0]
          ELSE [files |-> rest.files, attempts |-> <<attempt>> \o rest.attempts,
                success_count |-> rest.success_count + 1]

\* the for loop of save_cache from position i on
SaveLoop(fs, slots_with_data, outcomes, timestamp, i) ==
  IF i > Len(slots_with_data)
  THEN [files |-> fs, attempts |-> <<>>, success_count |-> 0]
  ELSE LET slot_id == slots_with_data[i]
           filename == CacheFileName(base_name, slot_id, timestamp)
           o == outcomes[i]
           fs1 == IF o.written
                  THEN [n \in DOMAIN fs \cup {filename} |->
                          IF n = filename THEN [mtime |-> now, content |-> o.content] ELSE fs[n]]
                  ELSE fs
           exists == filename \in DOMAIN fs1
           rest == SaveLoop(fs1, slots_with_data, outcomes, timestamp, i + 1)
       IN [files |-> rest.files,
           attempts |-> <<[slot |-> slot_id, filename |-> filename,
                           status |-> o.status, exists |-> exists]>> \o rest.attempts,
           success_count |-> rest.success_count + (IF SlotSaved(o.status, exists) THEN 1 ELSE 0)]

\* lines 809-813: rotation when a slot was saved, and the result
SaveFinished(loop, hs) ==
  IF loop.success_count > 0
  THEN {[files |-> r.files, hashes |-> r.hashes, result |-> loop.success_count > 0,
         attempts |-> loop.attempts, success_count |-> loop.success_count,
         rotated |-> TRUE, deleted |-> r.deleted] :
        r \in rotate_cache_files(loop.files, hs)}
  ELSE {[files |-> loop.files, hashes |-> hs, result |-> loop.success_count > 0,
         attempts |-> loop.attempts, success_count |-> loop.success_count,
         rotated |-> FALSE, deleted |-> {}]}

\* save_cache: the possible outcomes (directory, result, what was attempted)
save_cache(fs, hs, slots_with_data, outcomes) ==
  IF slots_with_data = <<>>
  THEN {[files |-> fs, hashes |-> hs, result |-> FALSE, attempts |-> <<>>,
         success_count |-> 0, rotated |-> FALSE, deleted |-> {}]}
  ELSE SaveFinished(SaveLoop(fs, slots_with_data, outcomes, FormatTs(now), 1), hs)

-----------------------------------------------------------------------------
(* Backup cycle *)

\* shutil.copy2(src, dst): content and modification time of the source
CopyFile(fs, dst, src) ==
  [n \in DOMAIN fs \cup {dst} |-> IF n = dst THEN fs[src] ELSE fs[n]]

\* lines 868-876: the copy is there, its hash is computed and saved
BackupCopied(fs1, hs, copied, backup_filename) ==
  [files |-> fs1,
   hashes |-> get_file_hash_cached(fs1, hs, backup_filename).hashes,
   copied |-> copied \cup {backup_filename}]

\* a loop body that skips a file of which the directory already has a copy
BackupOneUnlessCopied(st, name, cache_file) ==
  IF cache_file = <<>> \/ \E n \in DOMAIN st.files \ {cache_file[1]} :
                            st.files[n] = st.files[cache_file[1]]
  THEN st
  ELSE BackupCopied(CopyFile(st.files, BackupFileName(name, cache_file[1]), cache_file[1]),
                    st.hashes, st.copied, BackupFileName(name, cache_file[1]))

\* lines 857-876: the body of the loop for a slot whose file of the latest
\* timestamp is cache_file; st: directory, sidecars and copies so far
BackupOne(st, name, cache_file) ==
  IF cache_file = <<>> THEN st
  ELSE BackupCopied(CopyFile(st.files, BackupFileName(name, cache_file[1]), cache_file[1]),
                    st.hashes, st.copied, BackupFileName(name, cache_file[1]))

RECURSIVE BackupLoop(_, _, _, _, _)
\* the for loop of create_backup_with_name from position i on
BackupLoop(st, name, slots, latest_timestamp, i) ==
  IF i > Len(slots) THEN st
  ELSE BackupLoop(BackupOne(st, name,
                            get_cache_file_for_timestamp(st.files, slots[i], latest_timestamp)),
                  name, slots, latest_timestamp, i + 1)

\* line 886: success when a file was copied
BackupResult(loop) ==
  [files |-> loop.files, hashes |-> loop.hashes,
   result |-> loop.copied # {}, copied |-> loop.copied]

\* a backup that copies the files of the oldest timestamp
BackupOldest(fs, hs, name, slots, timestamp_groups) ==
  IF slots = <<>> \/ DOMAIN timestamp_groups = {}
  THEN [files |-> fs, hashes |-> hs, result |-> FALSE, copied |-> {}]
  ELSE BackupResult(BackupLoop([files |-> fs, hashes |-> hs, copied |-> {}], name, slots,
                               CHOOSE t \in DOMAIN timestamp_groups :
                                 \A u \in DOMAIN timestamp_groups : ~StrLess(u, t),
                               1))

\* lines 834-855: nothing to back up without slots or timestamps
BackupLatest(fs, hs, name, slots, timestamp_groups) ==
  IF slots = <<>> \/ DOMAIN timestamp_groups = {}
  THEN [files |-> fs, hashes |-> hs, result |-> FALSE, copied |-> {}]
  ELSE BackupResult(BackupLoop([files |-> fs, hashes |-> hs, copied |-> {}], name, slots,
                               MaxStr(DOMAIN timestamp_groups), 1))

create_backup_with_name(fs, hs, name) ==
  BackupLatest(fs, hs, name, get_slots_with_latest_timestamp(fs),
               TimestampGroups(CacheNames(fs)))

RECURSIVE ChangeLoop(_, _, _, _, _, _)
\* a comparison that never finds a difference
HashesAssumedEqual(fs, slots, latest_timestamp, unreadable, i, b, c) ==
  ChangeLoop(fs, c.hashes, slots, latest_timestamp, unreadable, i + 1)

\* lines 927-932: the two hashes are compared
HashesCompared(fs, slots, latest_timestamp, unreadable, i, b, c) ==
  IF b.hash # c.hash THEN [has_changes |-> TRUE, hashes |-> c.hashes, error |-> FALSE]
  ELSE ChangeLoop(fs, c.hashes, slots, latest_timestamp, unreadable, i + 1)

\* lines 916-941: the slot's file against the slot's newest backup;
\* unreadable: the slots whose files cannot be read during the comparison,
\* so that get_file_hash raises for one that has no sidecar (lines 933-936)
ChangeStep(fs, hs, slots, latest_timestamp, unreadable, i, cache_file, slot_backups) ==
  IF cache_file = <<>> THEN ChangeLoop(fs, hs, slots, latest_timestamp, unreadable, i + 1)
  ELSE IF slot_backups = {} THEN [has_changes |-> TRUE, hashes |-> hs, error |-> FALSE]
  ELSE IF /\ slots[i] \in unreadable
          /\ ~({CHOOSE n \in Newest(fs, slot_backups) : TRUE, cache_file[1]} \subseteq DOMAIN hs)
  THEN [has_changes |-> TRUE, hashes |-> hs, error |-> TRUE]
  ELSE HashesCompared(fs, slots, latest_timestamp, unreadable, i,
                      get_file_hash_cached(fs, hs, CHOOSE n \in Newest(fs, slot_backups) : TRUE),
                      get_file_hash_cached(
                        fs,
                        get_file_hash_cached(fs, hs,
                                             CHOOSE n \in Newest(fs, slot_backups) : TRUE).hashes,
                        cache_file[1]))

\* the change detection loop of create_backup from position i on: whether a
\* change was found, the sidecars written by the comparisons, and whether
\* a comparison raised
ChangeLoop(fs, hs, slots, latest_timestamp, unreadable, i) ==
  IF i > Len(slots) THEN [has_changes |-> FALSE, hashes |-> hs, error |-> FALSE]
  ELSE ChangeStep(fs, hs, slots, latest_timestamp, unreadable, i,
                  get_cache_file_for_timestamp(fs, slots[i], latest_timestamp),
                  {n \in BackupNames(fs) : Contains(n, SLOT_SEP \o Str(slots[i]) \o UNDERSCORE)})

\* create_backup returns False and changes no file
NoBackup(fs, hs) ==
  [files |-> fs, hashes |-> hs, result |-> FALSE, copied |-> {},
   rotated |-> FALSE, deleted |-> {}, compare_error |-> FALSE]

\* lines 948-951: rotation after a backup that copied a file
BackupFinished(b, error) ==
  IF b.result
  THEN {[files |-> r.files, hashes |-> r.hashes, result |-> TRUE,
         copied |-> b.copied, rotated |-> TRUE, deleted |-> r.deleted,
         compare_error |-> error] :
        r \in rotate_backups(b.files, b.hashes)}
  ELSE {[NoBackup(b.files, b.hashes) EXCEPT !.compare_error = error]}

\* lines 943-948: no backup without a change
BackupIfChanged(fs, check) ==
  IF ~check.has_changes THEN {NoBackup(fs, check.hashes)}
  ELSE BackupFinished(create_backup_with_name(fs, check.hashes, BACKUP_LABEL), check.error)

\* lines 892-914: nothing to back up without slots or timestamps
BackupLatestIfChanged(fs, hs, slots, timestamp_groups, unreadable) ==
  IF slots = <<>> \/ DOMAIN timestamp_groups = {} THEN {NoBackup(fs, hs)}
  ELSE BackupIfChanged(fs, ChangeLoop(fs, hs, slots, MaxStr(DOMAIN timestamp_groups),
                                      unreadable, 1))

\* create_backup: the possible outcomes
create_backup(fs, hs, unreadable) ==
  BackupLatestIfChanged(fs, hs, get_slots_with_latest_timestamp(fs),
                        TimestampGroups(CacheNames(fs)), unreadable)

-----------------------------------------------------------------------------
(* Restore *)

\* a line read from the operator console: end of input, or the stripped line
OperatorInputs ==
  {[eof |-> TRUE, line |-> <<>>]} \cup
  {[eof |-> FALSE, line |-> l] :
     l \in {<<>>, <<"0">>, <<"1">>, <<"2">>, <<"3">>, <<"4">>, <<"9">>, <<"-", "1">>, <<"x">>}}

\* backup_timestamp_groups of load_cache_interactive
BackupTimestampGroups(fs) ==
  GroupByTimestamp({<<n, TimestampOf(SubSeq(n, Len(BACKUP_LABEL) + 2, Len(n)))>> :
                      n \in {m \in BackupNames(fs) : StartsWith(m, BACKUP_LABEL \o UNDERSCORE)}})

\* timestamp_map of load_cache_interactive: entry k of the list shown
TimestampMap(fs, timestamp_groups) ==
  SortedStrDesc(DOMAIN timestamp_groups) \o SortedStrDesc(DOMAIN BackupTimestampGroups(fs))

\* a selection that takes the newest group on any input that is not a number
SelectTimestampLenient(sorted_timestamps, timestamp_map, input, choice_num) ==
  IF sorted_timestamps = <<>> THEN <<>>
  ELSE IF input.eof THEN <<>>
  ELSE IF input.line = <<>> THEN <<sorted_timestamps[1]>>
  ELSE IF input.line = Str(Len(timestamp_map) + 1) THEN <<>>
  ELSE IF choice_num = <<>> THEN <<sorted_timestamps[1]>>
  ELSE IF 1 <= choice_num[1] /\ choice_num[1] <= Len(timestamp_map)
       THEN <<timestamp_map[choice_num[1]]>>
       ELSE <<>>

\* lines 549-570: the line read is resolved against the list shown;
\* choice_num is int(choice_str), <<>> where it raises ValueError
SelectTimestamp(sorted_timestamps, timestamp_map, input, choice_num) ==
  IF sorted_timestamps = <<>> THEN <<>>
  ELSE IF input.eof THEN <<>>
  ELSE IF input.line = <<>> THEN <<sorted_timestamps[1]>>
  ELSE IF input.line = Str(Len(timestamp_map) + 1) THEN <<>>
  ELSE IF choice_num = <<>> THEN <<>>
  ELSE IF 1 <= choice_num[1] /\ choice_num[1] <= Len(timestamp_map)
       THEN <<timestamp_map[choice_num[1]]>>
       ELSE <<>>

\* load_cache_interactive: <<>> (None) or <<the selected timestamp>>
load_cache_interactive(fs, timestamp_groups, input) ==
  SelectTimestamp(SortedStrDesc(DOMAIN timestamp_groups), TimestampMap(fs, timestamp_groups),
                  input, ParseInt(input.line))

\* the oldest save instead of the newest
OldestTimestamp(timestamp_groups) ==
  CHOOSE t \in DOMAIN timestamp_groups :
    \A u \in DOMAIN timestamp_groups : u = t \/ StrLess(t, u)

\* line 444: the newest save
AutomaticTimestamp(timestamp_groups) == MaxStr(DOMAIN timestamp_groups)

\* what the server does with one restore request: answers 200, answers
\* another status, or the request raises
RestoreAnswers == {"200", "500", "exception"}

\* lines 399-411 of load_cache_from_file: True on status 200 only
load_cache_from_file(answer) == answer = "200"

\* load_cache returns False without a restore request
NothingRestored == [result |-> FALSE, raised |-> FALSE, requests |-> {}, restores |-> {}]

\* a restore loop that gives up at the first file whose restore fails
RestoreDecodedStopAtFailure(decoded, answers) ==
  [result |-> \E p \in decoded : p[2] # <<>> /\ load_cache_from_file(answers[p[2][1]]),
   raised |-> FALSE,
   requests |-> {[slot |-> p[2][1], filename |-> p[1]] :
                   p \in {q \in decoded : q[2] # <<>> /\
                            \A k \in 0..(q[2][1] - 1) : k \in SlotIds => answers[k] = "200"}},
   restores |-> {[slot |-> p[2][1], filename |-> p[1], status |-> answers[p[2][1]]] :
                   p \in {q \in decoded : q[2] # <<>> /\
                            \A k \in 0..(q[2][1] - 1) : k \in SlotIds => answers[k] = "200"}}]

\* lines 459-468: one request per file whose slot id was decoded; answers:
\* what the server does with a restore request, for each slot
RestoreDecoded(decoded, answers) ==
  [result |-> \E p \in decoded : p[2] # <<>> /\ load_cache_from_file(answers[p[2][1]]),
   raised |-> FALSE,
   requests |-> {[slot |-> p[2][1], filename |-> p[1]] : p \in {q \in decoded : q[2] # <<>>}},
   restores |-> {[slot |-> p[2][1], filename |-> p[1], status |-> answers[p[2][1]]] :
                   p \in {q \in decoded : q[2] # <<>>}}]

\* line 447: the group of the selected timestamp
RestoreSelected(timestamp_groups, selected_timestamp, answers) ==
  IF selected_timestamp = <<>> THEN NothingRestored
  ELSE IF selected_timestamp[1] \notin DOMAIN timestamp_groups
       \* timestamp_groups[selected_timestamp] raises KeyError
       THEN [result |-> FALSE, raised |-> TRUE, requests |-> {}, restores |-> {}]
  ELSE RestoreDecoded({<<n, SlotIdOf(n)>> : n \in timestamp_groups[selected_timestamp[1]]},
                      answers)

\* lines 433-444: the timestamp is selected by the operator or automatically
RestoreFromGroups(fs, cache_files, timestamp_groups, interactive, input, answers) ==
  IF cache_files = {} \/ DOMAIN timestamp_groups = {} THEN NothingRestored
  ELSE RestoreSelected(timestamp_groups,
                       IF interactive THEN load_cache_interactive(fs, timestamp_groups, input)
                       ELSE <<AutomaticTimestamp(timestamp_groups)>>,
                       answers)

\* lines 423-431: the snapshot files grouped by timestamp
RestoreFromFiles(fs, cache_files, interactive, input, answers) ==
  RestoreFromGroups(fs, cache_files, TimestampGroups(cache_files), interactive, input, answers)

\* load_cache: whether a slot was restored, whether an exception escaped, and
\* the restore requests sent
load_cache(fs, interactive, input, answers) ==
  RestoreFromFiles(fs, CacheNames(fs), interactive, input, answers)

-----------------------------------------------------------------------------
(* Operator commands *)

\* a console line after command.split(None, 1): the lower-cased first word
\* and, when there is one, the stripped rest
Commands ==
  {[cmd |-> "backup", has_arg |-> TRUE, arg |-> a] : a \in TypedBackupNames} \cup
  {[cmd |-> "slot", has_arg |-> TRUE, arg |-> a] : a \in {<<"1">>, <<"-", "1">>, <<"x">>}} \cup
  {[cmd |-> c, has_arg |-> FALSE, arg |-> <<>>] :
     c \in {"load", "restore", "help", "backup", "slot", "quit"}}

\* all(c.isalnum() or c in ('_', '-') for c in name)
ValidBackupName(name) == \A i \in 1..Len(name) : IsAlnumChar(name[i]) \/ name[i] \in {"_", "-"}

Idle ==
  [op |-> "none", result |-> FALSE, raised |-> FALSE, discovered |-> <<>>, attempts |-> <<>>,
   success_count |-> 0, interactive |-> FALSE, input |-> [eof |-> TRUE, line |-> <<>>],
   requests |-> {}, restores |-> {}, name |-> <<>>, copied |-> {}, rotated |-> "none",
   deleted |-> {}, compare_error |-> FALSE, command |-> <<>>]

\* the command changes nothing but the record
Unchanged(fs, hs, slot_id, op) ==
  [files |-> fs, hashes |-> hs, slot_id |-> slot_id, did |-> [Idle EXCEPT !.op = op]]

\* lines 972-978: after create_backup_with_name
NamedBackupDone(slot_id, name, b) ==
  [files |-> b.files, hashes |-> b.hashes, slot_id |-> slot_id,
   did |-> [Idle EXCEPT !.op = "named_backup", !.result = b.result,
                        !.name = name, !.copied = b.copied]]

\* lines 979-982: after load_cache(log, interactive=True)
LoadDone(fs, hs, slot_id, input, l) ==
  [files |-> fs, hashes |-> hs, slot_id |-> slot_id,
   did |-> [Idle EXCEPT !.op = "load", !.interactive = TRUE, !.input = input,
                        !.result = l.result, !.raised = l.raised, !.requests = l.requests,
                        !.restores = l.restores]]

\* a `slot` command that takes a negative number
SlotChosenUnchecked(fs, hs, slot_id, new_slot_id) ==
  IF new_slot_id = <<>>
  THEN Unchanged(fs, hs, slot_id, "rejected")
  ELSE [files |-> fs, hashes |-> hs, slot_id |-> new_slot_id[1],
        did |-> [Idle EXCEPT !.op = "slot"]]

\* lines 983-993: slot <id>
SlotChosen(fs, hs, slot_id, new_slot_id) ==
  IF new_slot_id = <<>> \/ new_slot_id[1] < 0
  THEN Unchanged(fs, hs, slot_id, "rejected")
  ELSE [files |-> fs, hashes |-> hs, slot_id |-> new_slot_id[1],
        did |-> [Idle EXCEPT !.op = "slot"]]

\* process_command: the directory, slot id and record of what it did
process_command(fs, hs, slot_id, command, input, answers) ==
  IF command.cmd = "backup" /\ command.has_arg
  THEN IF command.arg = <<>> \/ ~ValidBackupName(command.arg)
       THEN Unchanged(fs, hs, slot_id, "rejected")
       ELSE NamedBackupDone(slot_id, command.arg,
                            create_backup_with_name(fs, hs, command.arg))
  ELSE IF command.cmd = "load"
  THEN LoadDone(fs, hs, slot_id, input, load_cache(fs, TRUE, input, answers))
  ELSE IF command.cmd = "slot" /\ command.has_arg
  THEN SlotChosen(fs, hs, slot_id, ParseInt(command.arg))
  ELSE IF command.cmd = "help"
  THEN Unchanged(fs, hs, slot_id, "help")
  ELSE Unchanged(fs, hs, slot_id, "rejected")

-----------------------------------------------------------------------------
(* The process: main() *)

\* the naming variable is idle in the process specification
NoNaming == [phase |-> "off"]

\* FileEntry / SidecarEntry: a directory given as a set of files
DirOf(entries) ==
  [files |-> [n \in {e.name : e \in entries} |->
                LET e == CHOOSE x \in entries : x.name = n
                IN [mtime |-> e.mtime, content |-> e.content]],
   hashes |-> [n \in {e.name : e \in {x \in entries : x.sidecar}} |->
                 FileHash((CHOOSE x \in entries : x.name = n).content)]]

\* the snapshot a save cycle at clock t wrote for a slot, and its backup copy
OldSnapshot(slot_id, t, content) ==
  [name |-> CacheFileName(SessionName, slot_id, FormatTs(t)),
   mtime |-> t, content |-> content, sidecar |-> FALSE]

OldBackup(slot_id, t, content) ==
  [name |-> BackupFileName(BACKUP_LABEL, CacheFileName(SessionName, slot_id, FormatTs(t))),
   mtime |-> t, content |-> content, sidecar |-> TRUE]

\* the storage directory found at startup, left by earlier runs of the
\* session: empty; one backup whose snapshots are gone; two snapshot
\* groups, slot 1 and then slot 0; one snapshot and the backup of an older
\* group that rotation has removed; one snapshot group of two slots
InitialDirs ==
  {DirOf({}),
   DirOf({OldBackup(0, 0, 1)}),
   DirOf({OldSnapshot(1, 0, 1), OldSnapshot(0, 1, 2)}),
   DirOf({OldSnapshot(0, 1, 2), OldBackup(0, 0, 1)}),
   DirOf({OldSnapshot(0, 1, 1), OldSnapshot(1, 1, 2)})}

Init ==
  /\ base_name = SessionName
  /\ MAX_FILES \in 0..MaxCap
  /\ MAX_BACKUPS \in 0..MaxCap
  /\ \E d \in InitialDirs :
       /\ files = d.files
       /\ hashes = d.hashes
       \* the earlier runs kept the directory within the configured maxima
       /\ Cardinality({n \in DOMAIN d.files : GlobMatch(SessionName, n)}) <= MAX_FILES
       /\ Cardinality({n \in DOMAIN d.files : ~GlobMatch(SessionName, n)}) <= MAX_BACKUPS
  /\ now = StartClock
  /\ pc = "wait_for_server"
  /\ running = TRUE
  /\ shutdown_signals_count = 0
  /\ exit_code = <<>>
  /\ last_save_time = 0
  /\ last_backup_time = 0
  /\ current_time = 0
  /\ slot_id_var = SLOT_ID
  /\ ticks = 0
  /\ last = Idle
  /\ naming = NoNaming

\* signal_handler: SIGINT, SIGTERM or SIGHUP delivered between two steps
Signal ==
  /\ pc # "stopped"
  /\ shutdown_signals_count' = shutdown_signals_count + 1
  /\ IF shutdown_signals_count + 1 >= 2
     THEN /\ pc' = "stopped"
          /\ exit_code' = <<0>>
          /\ UNCHANGED running
     ELSE /\ running' = FALSE
          /\ UNCHANGED <<pc, exit_code>>
  /\ last' = [Idle EXCEPT !.op = "signal"]
  /\ UNCHANGED <<configVars, files, hashes, now, last_save_time, last_backup_time,
                 slot_id_var, ticks, current_time, naming>>

\* max_retries of wait_for_server
max_retries == 30

\* lines 188-200: True when one of the max_retries health checks answers
\* 200; first_healthy: the first check that would answer 200
wait_for_server(first_healthy) == first_healthy <= max_retries

\* a startup that goes on without a healthy server
WaitForServerIgnored ==
  /\ pc = "wait_for_server"
  /\ \E first_healthy \in 1..(max_retries + 1) :
       /\ pc' = "load"
       /\ exit_code' = exit_code
       /\ last' = [Idle EXCEPT !.op = "wait", !.result = wait_for_server(first_healthy)]
  /\ UNCHANGED <<configVars, files, hashes, now, running, shutdown_signals_count,
                 last_save_time, last_backup_time, slot_id_var, ticks, current_time, naming>>

\* wait_for_server and the sys.exit(1) of main; escaped: a health request
\* raised an exception that line 196 does not catch, which ends main() with
\* a traceback and exit status 1
WaitForServer ==
  /\ pc = "wait_for_server"
  /\ \E first_healthy \in 1..(max_retries + 1) :
     \E escaped \in BOOLEAN :
       /\ pc' = IF wait_for_server(first_healthy) /\ ~escaped THEN "load" ELSE "stopped"
       /\ exit_code' = IF wait_for_server(first_healthy) /\ ~escaped THEN exit_code ELSE <<1>>
       /\ last' = [Idle EXCEPT !.op = "wait", !.raised = escaped,
                               !.result = wait_for_server(first_healthy) /\ ~escaped]
  /\ UNCHANGED <<configVars, files, hashes, now, running, shutdown_signals_count,
                 last_save_time, last_backup_time, slot_id_var, ticks, current_time, naming>>

\* load_cache(logger, interactive=False) at startup
StartupLoad ==
  /\ pc = "load"
  /\ \E answers \in [SlotIds -> RestoreAnswers] :
     \E l \in {load_cache(files, FALSE, Idle.input, answers)} :
       last' = [Idle EXCEPT !.op = "load", !.result = l.result, !.raised = l.raised,
                               !.requests = l.requests, !.restores = l.restores]
  /\ pc' = "startup_backup"
  /\ UNCHANGED <<configVars, files, hashes, now, running, shutdown_signals_count, exit_code,
                 last_save_time, last_backup_time, slot_id_var, ticks, current_time, naming>>

\* what a create_backup outcome leaves in the directory and in the record
BackupDone(b) ==
  /\ files' = b.files
  /\ hashes' = b.hashes
  /\ last' = [Idle EXCEPT !.op = "backup", !.result = b.result, !.copied = b.copied,
                          !.rotated = IF b.rotated THEN "backup" ELSE "none",
                          !.deleted = b.deleted, !.compare_error = b.compare_error]

\* what a save_cache outcome leaves in the directory and in the record
SaveDone(slots_with_data, s) ==
  /\ files' = s.files
  /\ hashes' = s.hashes
  /\ last' = [Idle EXCEPT !.op = "save", !.result = s.result, !.discovered = slots_with_data,
                          !.attempts = s.attempts, !.success_count = s.success_count,
                          !.rotated = IF s.rotated THEN "cache" ELSE "none",
                          !.deleted = s.deleted]

\* create_backup at startup, then the two timers are started
StartupBackup ==
  /\ pc = "startup_backup"
  /\ \E unreadable \in {{}, SlotIds} :
       \E b \in create_backup(files, hashes, unreadable) : BackupDone(b)
  /\ last_save_time' = now
  /\ last_backup_time' = now
  /\ pc' = "loop"
  /\ UNCHANGED <<configVars, now, running, shutdown_signals_count, exit_code,
                 slot_id_var, ticks, current_time, naming>>

\* while running:
LoopCheck ==
  /\ pc = "loop"
  /\ IF running
     THEN /\ ticks < MaxTicks
          /\ ticks' = ticks + 1
          /\ pc' = "command"
     ELSE /\ pc' = "final_save"
          /\ UNCHANGED ticks
  /\ last' = Idle
  /\ UNCHANGED <<configVars, files, hashes, now, running, shutdown_signals_count, exit_code,
                 last_save_time, last_backup_time, slot_id_var, current_time, naming>>

\* no line is waiting on the console
NoCommand ==
  /\ pc = "command"
  /\ pc' = "clock"
  /\ last' = Idle
  /\ UNCHANGED <<configVars, files, hashes, now, running, shutdown_signals_count, exit_code,
                 last_save_time, last_backup_time, slot_id_var, ticks, current_time, naming>>

\* a line is waiting: process_command; an exception it raises is caught by
\* the loop, which sleeps and starts the next iteration
Command ==
  /\ pc = "command"
  /\ \E command \in Commands :
     \E input \in IF command.cmd = "load" THEN OperatorInputs ELSE {Idle.input} :
     \E answers \in IF command.cmd = "load" THEN [SlotIds -> RestoreAnswers]
                   ELSE {[k \in SlotIds |-> "200"]} :
     \E c \in {process_command(files, hashes, slot_id_var, command, input, answers)} :
       /\ files' = c.files
       /\ hashes' = c.hashes
       /\ slot_id_var' = c.slot_id
       /\ last' = c.did
       /\ pc' = IF c.did.raised THEN "loop" ELSE "clock"
       /\ now' = IF c.did.raised THEN now + ErrorSleep ELSE now
  /\ UNCHANGED <<configVars, running, shutdown_signals_count, exit_code,
                 last_save_time, last_backup_time, ticks, current_time, naming>>

\* current_time = time.time()
ReadClock ==
  /\ pc = "clock"
  /\ current_time' = now
  /\ pc' = "save"
  /\ last' = Idle
  /\ UNCHANGED <<configVars, files, hashes, now, running, shutdown_signals_count, exit_code,
                 last_save_time, last_backup_time, slot_id_var, ticks, naming>>

\* the scheduled save of a tick
TickSave ==
  /\ pc = "save"
  /\ IF current_time - last_save_time >= SAVE_INTERVAL
     THEN /\ \E slots_with_data \in Discoverable :
               \E outcomes \in [1..Len(slots_with_data) -> SaveOutcomes] :
                 \E s \in save_cache(files, hashes, slots_with_data, outcomes) :
                   SaveDone(slots_with_data, s)
          /\ last_save_time' = current_time
     ELSE /\ last' = Idle
          /\ UNCHANGED <<files, hashes, last_save_time>>
  /\ pc' = "backup"
  /\ UNCHANGED <<configVars, now, running, shutdown_signals_count, exit_code,
                 last_backup_time, slot_id_var, ticks, current_time, naming>>

\* the scheduled backup of a tick
TickBackup ==
  /\ pc = "backup"
  /\ IF current_time - last_backup_time >= BACKUP_INTERVAL
     THEN /\ \E unreadable \in {{}, SlotIds} :
               \E b \in create_backup(files, hashes, unreadable) : BackupDone(b)
          /\ last_backup_time' = current_time
     ELSE /\ last' = Idle
          /\ UNCHANGED <<files, hashes, last_backup_time>>
  /\ pc' = "sleep"
  /\ UNCHANGED <<configVars, now, running, shutdown_signals_count, exit_code,
                 last_save_time, slot_id_var, ticks, current_time, naming>>

\* time.sleep(1)
Sleep ==
  /\ pc = "sleep"
  /\ now' = now + TickSleep
  /\ pc' = "loop"
  /\ last' = Idle
  /\ UNCHANGED <<configVars, files, hashes, running, shutdown_signals_count, exit_code,
                 last_save_time, last_backup_time, slot_id_var, ticks, current_time, naming>>

\* the final save_cache after the loop
FinalSave ==
  /\ pc = "final_save"
  /\ \E slots_with_data \in Discoverable :
       \E outcomes \in [1..Len(slots_with_data) -> SaveOutcomes] :
         \E s \in save_cache(files, hashes, slots_with_data, outcomes) :
           SaveDone(slots_with_data, s)
  /\ pc' = "stopped"
  /\ exit_code' = <<0>>
  /\ UNCHANGED <<configVars, now, running, shutdown_signals_count,
                 last_save_time, last_backup_time, slot_id_var, ticks, current_time, naming>>

Next ==
  \/ Signal
  \/ WaitForServer
  \/ StartupLoad
  \/ StartupBackup
  \/ LoopCheck
  \/ NoCommand
  \/ Command
  \/ ReadClock
  \/ TickSave
  \/ TickBackup
  \/ Sleep
  \/ FinalSave

Spec == Init /\ [][Next]_vars

-----------------------------------------------------------------------------
(* The naming scheme on its own: a triple is encoded as save_cache encodes *)
(* it, and the name is decoded by the two extract functions               *)

\* session identifiers of the naming specification
NameSessions ==
  {<<"s">>,
   <<"a", "b">>,
   <<"a", "_", "b">>,
   <<"m", "y", "_", "s", "l", "o", "t">>,
   <<"a", "_", "s", "l", "o", "t", "1">>,
   <<"a", "_", "s", "l", "o", "t", "1", "_", "x">>,
   <<"s", "l", "o", "t", "2">>,
   <<"x", ".", "b", "i", "n">>}

mainVars == <<base_name, MAX_FILES, MAX_BACKUPS, files, hashes, now, pc, running,
              shutdown_signals_count, exit_code, last_save_time, last_backup_time,
              current_time, slot_id_var, ticks, last>>

InitNames ==
  /\ base_name \in NameSessions
  /\ MAX_FILES = 0
  /\ MAX_BACKUPS = 0
  /\ files = <<>>
  /\ hashes = <<>>
  /\ now \in 0..MaxNameClock
  /\ pc = "naming"
  /\ running = TRUE
  /\ shutdown_signals_count = 0
  /\ exit_code = <<>>
  /\ last_save_time = 0
  /\ last_backup_time = 0
  /\ current_time = 0
  /\ slot_id_var = SLOT_ID
  /\ ticks = 0
  /\ last = Idle
  /\ \E slot_id \in 0..MaxNameSlot :
       naming = [phase |-> "triple", slot |-> slot_id, timestamp |-> FormatTs(now),
                 filename |-> <<>>, slot_out |-> <<>>, timestamp_out |-> <<>>]

\* lines 783-787: the name a save cycle gives the slot's file
EncodeName ==
  /\ naming.phase = "triple"
  /\ naming' = [naming EXCEPT !.phase = "named",
                              !.filename = CacheFileName(base_name, naming.slot, naming.timestamp)]
  /\ UNCHANGED mainVars

\* the name decoded by extract_slot_id_from_filename and
\* extract_timestamp_from_filename
DecodeName ==
  /\ naming.phase = "named"
  /\ naming' = [naming EXCEPT !.phase = "decoded",
                              !.slot_out = extract_slot_id_from_filename(naming.filename),
                              !.timestamp_out = extract_timestamp_from_filename(naming.filename)]
  /\ UNCHANGED mainVars

NextNames ==
  \/ EncodeName
  \/ DecodeName

SpecNames == InitNames /\ [][NextNames]_vars

-----------------------------------------------------------------------------
(* The storage operations on their own: save cycles, backup cycles and     *)
(* named backups in every order and at every spacing in time, as main()    *)
(* runs them under the configured KV_SAVE_INTERVAL and KV_BACKUP_INTERVAL  *)
(* (lines 20 and 23) and the operator's commands                           *)

InitCycles ==
  /\ base_name = SessionName
  /\ MAX_FILES \in 0..MaxCap
  /\ MAX_BACKUPS \in 0..MaxCap
  /\ \E d \in InitialDirs :
       /\ files = d.files
       /\ hashes = d.hashes
       /\ Cardinality({n \in DOMAIN d.files : GlobMatch(SessionName, n)}) <= MAX_FILES
       /\ Cardinality({n \in DOMAIN d.files : ~GlobMatch(SessionName, n)}) <= MAX_BACKUPS
  \* the operations start in the second in which the newest file of the
  \* directory was written, or later
  /\ now \in (StartClock - 1)..StartClock
  /\ pc = "cycles"
  /\ running = TRUE
  /\ shutdown_signals_count = 0
  /\ exit_code = <<>>
  /\ last_save_time = 0
  /\ last_backup_time = 0
  /\ current_time = 0
  /\ slot_id_var = SLOT_ID
  /\ ticks = 0
  /\ last = Idle
  /\ naming = NoNaming

\* what no storage operation changes
cycleFrame == <<configVars, pc, running, shutdown_signals_count, exit_code, last_save_time,
                last_backup_time, current_time, slot_id_var, naming>>

\* one more operation is explored
CycleStarts ==
  /\ pc = "cycles"
  /\ ticks < MaxCycles
  /\ ticks' = ticks + 1

\* save_cache, lines 1064 and 1082
CycleSave ==
  /\ CycleStarts
  /\ \E slots_with_data \in Discoverable :
       \E outcomes \in [1..Len(slots_with_data) -> {o \in SaveOutcomes : o.status # "exception"}] :
         \E s \in save_cache(files, hashes, slots_with_data, outcomes) :
           SaveDone(slots_with_data, s)
  /\ UNCHANGED <<cycleFrame, now>>

\* create_backup, lines 1047 and 1067
CycleBackup ==
  /\ CycleStarts
  /\ \E unreadable \in {{}, SlotIds} :
       \E b \in create_backup(files, hashes, unreadable) : BackupDone(b)
  /\ UNCHANGED <<cycleFrame, now>>

\* the command `backup <name>`, lines 963-978
CycleNamedBackup ==
  /\ CycleStarts
  /\ \E command \in {c \in Commands : c.cmd = "backup"} :
     \E c \in {process_command(files, hashes, slot_id_var, command, Idle.input,
                                [k \in SlotIds |-> "200"])} :
       /\ files' = c.files
       /\ hashes' = c.hashes
       /\ last' = c.did
  /\ UNCHANGED <<cycleFrame, now>>

\* a second passes between two operations
CycleClock ==
  /\ CycleStarts
  /\ now' = now + 1
  /\ last' = Idle
  /\ UNCHANGED <<cycleFrame, files, hashes>>

NextCycles ==
  \/ CycleSave
  \/ CycleBackup
  \/ CycleNamedBackup
  \/ CycleClock

SpecCycles == InitCycles /\ [][NextCycles]_vars

-----------------------------------------------------------------------------
(* Shutdown of a process whose timers are due: main() from the top of the  *)
(* loop iteration in which both the scheduled save and the scheduled       *)
(* backup are due, with a second signal that can also arrive inside the    *)
(* final save_cache call                                                   *)

\* the process started at StartClock on one of the initial directories; two
\* iterations have passed in which no slot held data, so that the directory
\* is the one the startup backup left, the save timer was restarted in the
\* second iteration and the backup timer is the startup's
InitShutdown ==
  /\ base_name = SessionName
  /\ MAX_FILES \in 0..MaxCap
  /\ MAX_BACKUPS \in 0..MaxCap
  /\ \E d \in InitialDirs :
       /\ Cardinality({n \in DOMAIN d.files : GlobMatch(SessionName, n)}) <= MAX_FILES
       /\ Cardinality({n \in DOMAIN d.files : ~GlobMatch(SessionName, n)}) <= MAX_BACKUPS
       /\ \E b \in create_backup(d.files, d.hashes, {}) :
            /\ files = b.files
            /\ hashes = b.hashes
  /\ now = StartClock + BACKUP_INTERVAL
  /\ pc = "loop"
  /\ running = TRUE
  /\ shutdown_signals_count = 0
  /\ exit_code = <<>>
  /\ last_save_time = StartClock + BACKUP_INTERVAL - TickSleep
  /\ last_backup_time = StartClock
  /\ current_time = StartClock + BACKUP_INTERVAL - TickSleep
  /\ slot_id_var = SLOT_ID
  /\ ticks = 0
  /\ last = Idle
  /\ naming = NoNaming

\* the second signal arrives inside the final save_cache call: sys.exit(0)
\* of signal_handler (line 1010) leaves the loop of lines 786-807 after j
\* slots, or the function before its rotation (line 810); SystemExit is
\* not an Exception, so the handler of line 806 does not catch it
InterruptedSave ==
  /\ pc = "final_save"
  /\ shutdown_signals_count = 1
  /\ \E slots_with_data \in Discoverable :
     \E j \in 0..Len(slots_with_data) :
     \E outcomes \in [1..j -> SaveOutcomes] :
     \E loop \in {SaveLoop(files, SubSeq(slots_with_data, 1, j), outcomes, FormatTs(now), 1)} :
       /\ files' = loop.files
       /\ last' = [Idle EXCEPT !.op = "interrupted_save", !.discovered = slots_with_data,
                               !.attempts = loop.attempts]
  /\ shutdown_signals_count' = 2
  /\ pc' = "stopped"
  /\ exit_code' = <<0>>
  /\ UNCHANGED <<configVars, hashes, now, running, last_save_time, last_backup_time,
                 slot_id_var, ticks, current_time, naming>>

NextShutdown ==
  \/ Signal
  \/ LoopCheck
  \/ NoCommand
  \/ Command
  \/ ReadClock
  \/ TickSave
  \/ TickBackup
  \/ Sleep
  \/ FinalSave
  \/ InterruptedSave

SpecShutdown == InitShutdown /\ [][NextShutdown]_vars

-----------------------------------------------------------------------------
(* The fingerprint store on its own: get_file_hash_cached called on the     *)
(* files of a directory, with sidecars that can or cannot be written, and  *)
(* the server rewriting a file between two calls                           *)

\* what the last step of the fingerprint specification did; again: the step
\* before was a call on the same file, which returned first_hash;
\* sidecar_found: the file had a sidecar when the call started
NoHash ==
  [op |-> "none", name |-> <<>>, hash |-> 0, content_read |-> FALSE, again |-> FALSE,
   first_hash |-> 0, sidecar_found |-> FALSE]

InitHash ==
  /\ base_name = SessionName
  /\ MAX_FILES = MaxCap
  /\ MAX_BACKUPS = MaxCap
  /\ \E d \in InitialDirs :
     \E with_sidecar \in SUBSET DOMAIN d.files :
       /\ files = d.files
       /\ hashes = [n \in with_sidecar |-> FileHash(d.files[n].content)]
  /\ now = StartClock
  /\ pc = "hash"
  /\ running = TRUE
  /\ shutdown_signals_count = 0
  /\ exit_code = <<>>
  /\ last_save_time = 0
  /\ last_backup_time = 0
  /\ current_time = 0
  /\ slot_id_var = SLOT_ID
  /\ ticks = 0
  /\ last = NoHash
  /\ naming = NoNaming

hashFrame == <<configVars, now, pc, running, shutdown_signals_count, exit_code, last_save_time,
               last_backup_time, current_time, slot_id_var, naming>>

HashStepStarts ==
  /\ pc = "hash"
  /\ ticks < MaxHashSteps
  /\ ticks' = ticks + 1

\* one call of get_file_hash_cached on a file of the directory
HashCall ==
  /\ HashStepStarts
  /\ \E name \in DOMAIN files :
     \E writable \in BOOLEAN :
     \E h \in {HashCached(files, hashes, name, writable)} :
       /\ hashes' = h.hashes
       /\ last' = [op |-> "hash", name |-> name, hash |-> h.hash,
                   content_read |-> h.content_read,
                   again |-> last.op = "hash" /\ last.name = name,
                   first_hash |-> last.hash,
                   sidecar_found |-> name \in DOMAIN hashes]
  /\ UNCHANGED <<hashFrame, files>>

\* the server writes another content under the name of an existing file
\* (lines 787-792: the file name is sent to the server, which writes it)
ServerRewrites ==
  /\ HashStepStarts
  /\ \E name \in DOMAIN files :
       files' = [files EXCEPT ![name].content = 3 - files[name].content]
  /\ last' = NoHash
  /\ UNCHANGED <<hashFrame, hashes>>

NextHash ==
  \/ HashCall
  \/ ServerRewrites

SpecHash == InitHash /\ [][NextHash]_vars

-----------------------------------------------------------------------------
(* The session list on its own: get_available_base_names on directories of *)
(* .bin files of two sessions, named with and without a slot id            *)

\* cache_file.stem of a name that ends in ".bin"
Stem(n) == SubSeq(n, 1, Len(n) - Len(BIN_EXT))

\* f"{session}_{timestamp}.bin"
PlainFileName(session, timestamp) == session \o UNDERSCORE \o timestamp \o BIN_EXT

\* the file names of the session list specification
SessionFileNames ==
  {PlainFileName(x, FormatTs(0)) : x \in {<<"a">>, <<"b">>}} \cup
  {CacheFileName(x, 0, FormatTs(0)) : x \in {<<"a">>, <<"b">>}}

\* lines 73-81: the part before "_slot" of every stem that has one
BaseNamesOf(fs) ==
  {Split(Stem(n), SLOT_SEP)[1] :
     n \in {m \in DOMAIN fs : EndsWith(m, BIN_EXT) /\ Contains(Stem(m), SLOT_SEP)}} \ {<<>>}

\* line 84: the newest modification time of the files of a session, 0
\* without one
SessionKey(fs, x) ==
  IF \E n \in DOMAIN fs : GlobMatch(x, n)
  THEN CHOOSE t \in {fs[n].mtime : n \in {m \in DOMAIN fs : GlobMatch(x, m)}} :
         \A n \in {m \in DOMAIN fs : GlobMatch(x, m)} : fs[n].mtime <= t
  ELSE 0

RECURSIVE SortedByKeyDesc(_, _)
\* lines 82-86: the lists sorted(list(base_names), key=..., reverse=True)
\* can return, sessions of equal key in the order of the set, which is any
SortedByKeyDesc(fs, names) ==
  IF names = {} THEN {<<>>}
  ELSE LET first == {x \in names : \A y \in names : SessionKey(fs, x) >= SessionKey(fs, y)}
       IN UNION {{<<x>> \o t : t \in SortedByKeyDesc(fs, names \ {x})} : x \in first}

get_available_base_names(fs) == SortedByKeyDesc(fs, BaseNamesOf(fs))

InitSessions ==
  /\ base_name = <<>>
  /\ MAX_FILES = MaxCap
  /\ MAX_BACKUPS = MaxCap
  /\ \E names \in SUBSET SessionFileNames :
       files \in [names -> [mtime : 0..MaxSessionClock, content : {1}]]
  /\ hashes = <<>>
  /\ now = StartClock
  /\ pc = "sessions"
  /\ running = TRUE
  /\ shutdown_signals_count = 0
  /\ exit_code = <<>>
  /\ last_save_time = 0
  /\ last_backup_time = 0
  /\ current_time = 0
  /\ slot_id_var = SLOT_ID
  /\ ticks = 0
  /\ last = [op |-> "none", names |-> <<>>]
  /\ naming = NoNaming

\* available_names = get_available_base_names(), line 94
ListSessions ==
  /\ pc = "sessions"
  /\ last.op = "none"
  /\ \E names \in get_available_base_names(files) :
       last' = [op |-> "sessions", names |-> names]
  /\ UNCHANGED <<configVars, files, hashes, now, pc, running, shutdown_signals_count, exit_code,
                 last_save_time, last_backup_time, current_time, slot_id_var, ticks, naming>>

NextSessions ==
  \/ ListSessions

SpecSessions == InitSessions /\ [][NextSessions]_vars

-----------------------------------------------------------------------------
(* The session picker: choose_base_name with sessions on disk, the main     *)
(* thread reading the console and the thread of threading.Timer running     *)
(* timeout_handler, one step per access to user_input_ready and user_choice *)

\* the lists get_available_base_names can return
PickerSessions == {<<(<<"a">>), (<<"b">>)>>, <<(<<"b">>), (<<"a">>)>>, <<(<<"a">>)>>}

\* the lines an operator types at the prompt, stripped
PickerLines == {<<>>, <<"0">>, <<"1">>, <<"2">>, <<"3">>, <<"x">>, <<"-", "1">>}

\* the name typed for a new session
NewSessionName == <<"n">>

\* lines 160-167: available_names[int(choice) - 1], or the new session when
\* it raises ValueError or IndexError
SessionByIndex(available_names, choice_num) ==
  IF choice_num = <<>> THEN NewSessionName
  ELSE IF 1 <= choice_num[1] /\ choice_num[1] <= Len(available_names)
       THEN available_names[choice_num[1]]
  ELSE IF choice_num[1] <= 0 /\ 1 <= Len(available_names) + choice_num[1]
       THEN available_names[Len(available_names) + choice_num[1]]
  ELSE NewSessionName

\* lines 143-167: the session selected for user_choice (<<>> is None)
SelectedSession(available_names, user_choice_value) ==
  LET choice == IF user_choice_value = <<>> \/ user_choice_value[1] = <<>>
                THEN <<"0">> ELSE user_choice_value[1]
  IN IF choice = <<"0">> THEN available_names[1]
     ELSE IF IsDigit(choice) /\ 1 <= ParseInt(choice)[1] /\ ParseInt(choice)[1] <= Len(available_names)
          THEN available_names[ParseInt(choice)[1]]
     ELSE IF choice = Str(Len(available_names) + 1) THEN NewSessionName
     ELSE SessionByIndex(available_names, ParseInt(choice))

InitPicker ==
  /\ base_name = <<>>
  /\ MAX_FILES = MaxCap
  /\ MAX_BACKUPS = MaxCap
  /\ files = <<>>
  /\ hashes = <<>>
  /\ now = StartClock
  /\ pc = "choose_base_name"
  /\ running = TRUE
  /\ shutdown_signals_count = 0
  /\ exit_code = <<>>
  /\ last_save_time = 0
  /\ last_backup_time = 0
  /\ current_time = 0
  /\ slot_id_var = SLOT_ID
  /\ ticks = 0
  \* lines 110-121: the two globals are reset and the timer is started;
  \* read: the line the main thread has read; entered_first: it read the
  \* line before timeout_handler started
  /\ \E available_names \in PickerSessions :
       last = [main |-> "loop", timer |-> "armed", user_input_ready |-> FALSE,
               user_choice |-> <<>>, available_names |-> available_names,
               read |-> <<>>, entered_first |-> FALSE]
  /\ naming = NoNaming

pickerFrame == <<MAX_FILES, MAX_BACKUPS, files, hashes, now, pc, running,
                 shutdown_signals_count, exit_code, last_save_time, last_backup_time,
                 current_time, slot_id_var, ticks, naming>>

\* line 127: while not user_input_ready
PickerLoopTest ==
  /\ last.main = "loop"
  /\ last' = [last EXCEPT !.main = IF last.user_input_ready THEN "cancel" ELSE "select"]
  /\ UNCHANGED <<pickerFrame, base_name>>

\* line 128: select returns without a line after half a second
PickerNoLine ==
  /\ last.main = "select"
  /\ last' = [last EXCEPT !.main = "loop"]
  /\ UNCHANGED <<pickerFrame, base_name>>

\* lines 128-129: a line is waiting and readline returns it
PickerReadLine ==
  /\ last.main = "select"
  /\ \E line \in PickerLines :
       last' = [last EXCEPT !.main = "set_choice", !.read = <<line>>,
                            !.entered_first = last.timer = "armed"]
  /\ UNCHANGED <<pickerFrame, base_name>>

\* line 130: user_choice = line
PickerSetChoice ==
  /\ last.main = "set_choice"
  /\ last' = [last EXCEPT !.main = "set_ready", !.user_choice = last.read]
  /\ UNCHANGED <<pickerFrame, base_name>>

\* lines 131-132: user_input_ready = True; break
PickerSetReady ==
  /\ last.main = "set_ready"
  /\ last' = [last EXCEPT !.main = "cancel", !.user_input_ready = TRUE]
  /\ UNCHANGED <<pickerFrame, base_name>>

\* line 141: timer.cancel() stops a timer that has not fired yet
PickerCancel ==
  /\ last.main = "cancel"
  /\ last' = [last EXCEPT !.main = "choose",
                          !.timer = IF last.timer = "armed" THEN "cancelled" ELSE last.timer]
  /\ UNCHANGED <<pickerFrame, base_name>>

\* lines 143-167: the session is selected from user_choice
PickerChoose ==
  /\ last.main = "choose"
  /\ base_name' = SelectedSession(last.available_names, last.user_choice)
  /\ last' = [last EXCEPT !.main = "done"]
  /\ UNCHANGED pickerFrame

\* INITIAL_TIMEOUT seconds have passed; line 115: if not user_input_ready
TimeoutHandlerTest ==
  /\ last.timer = "armed"
  /\ last' = [last EXCEPT !.timer = IF last.user_input_ready THEN "done" ELSE "set_choice"]
  /\ UNCHANGED <<pickerFrame, base_name>>

\* line 116: user_choice = "0"
TimeoutHandlerSetChoice ==
  /\ last.timer = "set_choice"
  /\ last' = [last EXCEPT !.timer = "set_ready", !.user_choice = <<(<<"0">>)>>]
  /\ UNCHANGED <<pickerFrame, base_name>>

\* line 117: user_input_ready = True
TimeoutHandlerSetReady ==
  /\ last.timer = "set_ready"
  /\ last' = [last EXCEPT !.timer = "done", !.user_input_ready = TRUE]
  /\ UNCHANGED <<pickerFrame, base_name>>

NextPicker ==
  \/ PickerLoopTest
  \/ PickerNoLine
  \/ PickerReadLine
  \/ PickerSetChoice
  \/ PickerSetReady
  \/ PickerCancel
  \/ PickerChoose
  \/ TimeoutHandlerTest
  \/ TimeoutHandlerSetChoice
  \/ TimeoutHandlerSetReady

SpecPicker == InitPicker /\ [][NextPicker]_vars

-----------------------------------------------------------------------------
(* The two rotations on their own: rotate_cache_files and rotate_backups in *)
(* a directory that holds the files of several sessions, for each session   *)
(* the process can be started with                                          *)

\* the sessions that have written to the directory
RotationSessions == {SessionName, <<"t">>, BACKUP_LABEL \o UNDERSCORE \o SessionName}

\* a file of the directory with the session and the operation that wrote it:
\* a snapshot written by save_cache, a backup written by create_backup or by
\* the command `backup a`
RotationEntries ==
  {[name |-> CacheFileName(x, 0, FormatTs(t)), mtime |-> t, content |-> 1,
    session |-> x, kind |-> "snapshot"] : x \in RotationSessions, t \in 0..1} \cup
  {[name |-> BackupFileName(l, CacheFileName(SessionName, 0, FormatTs(t))), mtime |-> t,
    content |-> 1, session |-> SessionName, kind |-> "backup"] :
     l \in {BACKUP_LABEL, <<"a">>}, t \in 0..1}

\* the directories of at most MaxRotationFiles files, no name twice
RotationDirs ==
  {d \in SUBSET RotationEntries :
     /\ Cardinality(d) <= MaxRotationFiles
     /\ \A e, f \in d : e.name = f.name => e = f}

InitRotation ==
  /\ base_name \in RotationSessions
  /\ MAX_FILES \in 1..MaxCap
  /\ MAX_BACKUPS \in 1..MaxCap
  /\ \E d \in RotationDirs :
       /\ files = [n \in {e.name : e \in d} |-> CHOOSE e \in d : e.name = n]
       \* every backup has the sidecar create_backup_with_name writes
       /\ hashes = [n \in {e.name : e \in {f \in d : f.kind = "backup"}} |-> FileHash(1)]
  /\ now = StartClock
  /\ pc = "rotation"
  /\ running = TRUE
  /\ shutdown_signals_count = 0
  /\ exit_code = <<>>
  /\ last_save_time = 0
  /\ last_backup_time = 0
  /\ current_time = 0
  /\ slot_id_var = SLOT_ID
  /\ ticks = 0
  /\ last = [op |-> "none", deleted |-> {}]
  /\ naming = NoNaming

\* rotate_cache_files(log), line 810
RotateSnapshots ==
  /\ pc = "rotation"
  /\ ticks < MaxRotations
  /\ ticks' = ticks + 1
  /\ \E r \in rotate_cache_files(files, hashes) :
       /\ files' = r.files
       /\ hashes' = r.hashes
       /\ last' = [op |-> "rotate_cache_files", deleted |-> r.deleted]
  /\ UNCHANGED <<configVars, now, pc, running, shutdown_signals_count, exit_code, last_save_time,
                 last_backup_time, current_time, slot_id_var, naming>>

\* rotate_backups(log), line 946
RotateBackups ==
  /\ pc = "rotation"
  /\ ticks < MaxRotations
  /\ ticks' = ticks + 1
  /\ \E r \in rotate_backups(files, hashes) :
       /\ files' = r.files
       /\ hashes' = r.hashes
       /\ last' = [op |-> "rotate_backups", deleted |-> r.deleted]
  /\ UNCHANGED <<configVars, now, pc, running, shutdown_signals_count, exit_code, last_save_time,
                 last_backup_time, current_time, slot_id_var, naming>>

NextRotation ==
  \/ RotateSnapshots
  \/ RotateBackups

SpecRotation == InitRotation /\ [][NextRotation]_vars

-----------------------------------------------------------------------------
(* The calls of main(): every save cycle, backup cycle and restore with a  *)
(* step at which it is called and a step at which it returns, so that a    *)
(* signal can arrive while one is in progress.  The server holds data in   *)
(* slot 0 or in no slot and answers every save and restore request.        *)

\* the record of a run that has called nothing yet.  active: the operations
\* called and not yet returned, the innermost last; healthy: wait_for_server
\* has returned True; restored: the load_cache of line 1041 has returned;
\* started: the calls of the current iteration of the loop, by position;
\* save_due, backup_due: whether the interval of the timer had elapsed when
\* the iteration started
NoCalls ==
  [op |-> "none", active |-> <<>>, healthy |-> FALSE, restored |-> FALSE, started |-> <<>>,
   save_due |-> FALSE, backup_due |-> FALSE]

\* the record after a step: what the step was and the operations in progress
Calls(op, active) == [last EXCEPT !.op = op, !.active = active]

InitSerial ==
  /\ base_name = SessionName
  /\ MAX_FILES = MaxCap
  /\ MAX_BACKUPS = MaxCap
  /\ \E d \in {DirOf({}), DirOf({OldSnapshot(0, 1, 1)}),
                DirOf({OldSnapshot(0, 1, 2), OldBackup(0, 0, 1)})} :
       /\ files = d.files
       /\ hashes = d.hashes
  /\ now = StartClock
  /\ pc = "wait_for_server"
  /\ running = TRUE
  /\ shutdown_signals_count = 0
  /\ exit_code = <<>>
  /\ last_save_time = 0
  /\ last_backup_time = 0
  /\ current_time = 0
  /\ slot_id_var = SLOT_ID
  /\ ticks = 0
  /\ last = NoCalls
  /\ naming = NoNaming

\* what no step of the calls specification changes
serialFrame == <<configVars, slot_id_var, naming>>

\* a signal handler that runs the final save itself
SerialSignalSaves ==
  /\ pc # "stopped"
  /\ shutdown_signals_count' = shutdown_signals_count + 1
  /\ running' = FALSE
  /\ last' = Calls("signal", Append(last.active, "save"))
  /\ UNCHANGED <<serialFrame, files, hashes, now, pc, exit_code, last_save_time,
                 last_backup_time, current_time, ticks>>

\* signal_handler, at any point of main(), inside an operation included: it
\* sets running, or leaves the process with sys.exit(0), which abandons the
\* operation in progress
SerialSignal ==
  /\ pc # "stopped"
  /\ shutdown_signals_count' = shutdown_signals_count + 1
  /\ IF shutdown_signals_count + 1 >= 2
     THEN /\ pc' = "stopped"
          /\ exit_code' = <<0>>
          /\ last' = Calls("signal", <<>>)
          /\ UNCHANGED running
     ELSE /\ running' = FALSE
          /\ last' = Calls("signal", last.active)
          /\ UNCHANGED <<pc, exit_code>>
  /\ UNCHANGED <<serialFrame, files, hashes, now, last_save_time, last_backup_time,
                 current_time, ticks>>

\* a startup that goes on to the restore without a healthy server
SerialWaitIgnored ==
  /\ pc = "wait_for_server"
  /\ \E first_healthy \in {1, max_retries + 1} :
       /\ pc' = "load"
       /\ exit_code' = exit_code
       /\ last' = [Calls("wait", last.active) EXCEPT !.healthy = wait_for_server(first_healthy)]
  /\ UNCHANGED <<serialFrame, files, hashes, now, running, shutdown_signals_count,
                 last_save_time, last_backup_time, current_time, ticks>>

\* lines 1036-1038: wait_for_server and the sys.exit(1) of main
SerialWaitForServer ==
  /\ pc = "wait_for_server"
  /\ \E first_healthy \in {1, max_retries + 1} :
       /\ pc' = IF wait_for_server(first_healthy) THEN "load" ELSE "stopped"
       /\ exit_code' = IF wait_for_server(first_healthy) THEN exit_code ELSE <<1>>
       /\ last' = [Calls("wait", last.active) EXCEPT !.healthy = wait_for_server(first_healthy)]
  /\ UNCHANGED <<serialFrame, files, hashes, now, running, shutdown_signals_count,
                 last_save_time, last_backup_time, current_time, ticks>>

\* the call of an operation at a position of main()
Called(at, op, inside) ==
  /\ pc = at
  /\ pc' = inside
  /\ last' = [Calls("call", Append(last.active, op)) EXCEPT
                !.started = Append(last.started, inside)]

\* a loop without the except clause of line 1078: the exception ends main()
RaisedUncaught(inside) ==
  /\ pc = inside
  /\ pc' = "stopped"
  /\ now' = now
  /\ last' = Calls("raise", <<>>)

\* lines 1078-1080: the operation in progress raises, the loop catches the
\* exception, sleeps five seconds and starts its next iteration
Raised(inside) ==
  /\ pc = inside
  /\ pc' = "loop"
  /\ now' = now + ErrorSleep
  /\ last' = Calls("raise", SubSeq(last.active, 1, Len(last.active) - 1))

\* the return of the operation in progress
Returned(inside, after) ==
  /\ pc = inside
  /\ pc' = after
  /\ last' = Calls("return", SubSeq(last.active, 1, Len(last.active) - 1))

\* load_cache(logger, interactive=False), line 1041
StartupLoadCalled ==
  /\ Called("load", "restore", "in_load")
  /\ UNCHANGED <<serialFrame, files, hashes, now, running, shutdown_signals_count, exit_code,
                 last_save_time, last_backup_time, current_time, ticks>>

StartupLoadReturns ==
  /\ pc = "in_load"
  /\ pc' = "startup_backup"
  /\ last' = [Calls("return", SubSeq(last.active, 1, Len(last.active) - 1)) EXCEPT
                !.restored = TRUE]
  /\ UNCHANGED <<serialFrame, files, hashes, now, running, shutdown_signals_count, exit_code,
                 last_save_time, last_backup_time, current_time, ticks>>

\* create_backup(logger), line 1047
StartupBackupCalled ==
  /\ Called("startup_backup", "backup", "in_startup_backup")
  /\ UNCHANGED <<serialFrame, files, hashes, now, running, shutdown_signals_count, exit_code,
                 last_save_time, last_backup_time, current_time, ticks>>

\* lines 1047-1049: it returns and the two timers are started
StartupBackupReturns ==
  /\ Returned("in_startup_backup", "loop")
  /\ \E b \in create_backup(files, hashes, {}) :
       /\ files' = b.files
       /\ hashes' = b.hashes
  /\ last_save_time' = now
  /\ last_backup_time' = now
  /\ UNCHANGED <<serialFrame, now, running, shutdown_signals_count, exit_code,
                 current_time, ticks>>

\* while running:
SerialLoopCheck ==
  /\ pc = "loop"
  /\ IF running
     THEN /\ ticks < MaxSerialTicks
          /\ ticks' = ticks + 1
          /\ pc' = "command"
     ELSE /\ pc' = "final_save"
          /\ UNCHANGED ticks
  /\ last' = [Calls("loop", last.active) EXCEPT
                !.started = <<>>,
                !.save_due = now - last_save_time >= SAVE_INTERVAL,
                !.backup_due = now - last_backup_time >= BACKUP_INTERVAL]
  /\ UNCHANGED <<serialFrame, files, hashes, now, running, shutdown_signals_count, exit_code,
                 last_save_time, last_backup_time, current_time>>

\* lines 1052-1060: no line is waiting, or one that starts no operation
SerialNoCommand ==
  /\ pc = "command"
  /\ pc' = "clock"
  /\ last' = Calls("no_command", last.active)
  /\ UNCHANGED <<serialFrame, files, hashes, now, running, shutdown_signals_count, exit_code,
                 last_save_time, last_backup_time, current_time, ticks>>

\* `backup a`: create_backup_with_name, line 975
NamedBackupCalled ==
  /\ Called("command", "backup", "in_named_backup")
  /\ UNCHANGED <<serialFrame, files, hashes, now, running, shutdown_signals_count, exit_code,
                 last_save_time, last_backup_time, current_time, ticks>>

NamedBackupReturns ==
  /\ Returned("in_named_backup", "clock")
  /\ \E b \in {create_backup_with_name(files, hashes, <<"a">>)} :
       /\ files' = b.files
       /\ hashes' = b.hashes
  /\ UNCHANGED <<serialFrame, now, running, shutdown_signals_count, exit_code,
                 last_save_time, last_backup_time, current_time, ticks>>

\* `load`: load_cache(log, interactive=True), line 982
CommandLoadCalled ==
  /\ Called("command", "restore", "in_command_load")
  /\ UNCHANGED <<serialFrame, files, hashes, now, running, shutdown_signals_count, exit_code,
                 last_save_time, last_backup_time, current_time, ticks>>

\* it returns, or raises the KeyError of line 447
CommandLoadReturns ==
  /\ \E input \in OperatorInputs :
       IF load_cache(files, TRUE, input, [k \in SlotIds |-> "200"]).raised
       THEN Raised("in_command_load")
       ELSE Returned("in_command_load", "clock") /\ UNCHANGED now
  /\ UNCHANGED <<serialFrame, files, hashes, running, shutdown_signals_count, exit_code,
                 last_save_time, last_backup_time, current_time, ticks>>

\* current_time = time.time()
SerialReadClock ==
  /\ pc = "clock"
  /\ current_time' = now
  /\ pc' = "save"
  /\ last' = Calls("clock", last.active)
  /\ UNCHANGED <<serialFrame, files, hashes, now, running, shutdown_signals_count, exit_code,
                 last_save_time, last_backup_time, ticks>>

\* lines 1063-1064: the save timer is due, save_cache is called
TickSaveCalled ==
  /\ current_time - last_save_time >= SAVE_INTERVAL
  /\ Called("save", "save", "in_save")
  /\ UNCHANGED <<serialFrame, files, hashes, now, running, shutdown_signals_count, exit_code,
                 last_save_time, last_backup_time, current_time, ticks>>

\* the save timer is not due
TickSaveSkipped ==
  /\ pc = "save"
  /\ ~(current_time - last_save_time >= SAVE_INTERVAL)
  /\ pc' = "backup"
  /\ last' = Calls("skip", last.active)
  /\ UNCHANGED <<serialFrame, files, hashes, now, running, shutdown_signals_count, exit_code,
                 last_save_time, last_backup_time, current_time, ticks>>

\* what save_cache leaves when the server holds data in slot 0 or in no slot
SaveEffect ==
  \E slots_with_data \in {<<>>, <<0>>} :
  \E s \in save_cache(files, hashes, slots_with_data,
                      [i \in 1..Len(slots_with_data) |->
                         [status |-> "200", written |-> TRUE, content |-> 1]]) :
    /\ files' = s.files
    /\ hashes' = s.hashes

\* save_cache raises: a status check of the enumeration of line 753 raised
TickSaveRaises ==
  /\ Raised("in_save")
  /\ UNCHANGED <<serialFrame, files, hashes, running, shutdown_signals_count, exit_code,
                 last_save_time, last_backup_time, current_time, ticks>>

\* lines 1064-1065: save_cache returns
TickSaveReturns ==
  /\ Returned("in_save", "backup")
  /\ SaveEffect
  /\ last_save_time' = current_time
  /\ UNCHANGED <<serialFrame, now, running, shutdown_signals_count, exit_code,
                 last_backup_time, current_time, ticks>>

\* lines 1066-1067: the backup timer is due, create_backup is called
TickBackupCalled ==
  /\ current_time - last_backup_time >= BACKUP_INTERVAL
  /\ Called("backup", "backup", "in_backup")
  /\ UNCHANGED <<serialFrame, files, hashes, now, running, shutdown_signals_count, exit_code,
                 last_save_time, last_backup_time, current_time, ticks>>

\* the backup timer is not due
TickBackupSkipped ==
  /\ pc = "backup"
  /\ ~(current_time - last_backup_time >= BACKUP_INTERVAL)
  /\ pc' = "sleep"
  /\ last' = Calls("skip", last.active)
  /\ UNCHANGED <<serialFrame, files, hashes, now, running, shutdown_signals_count, exit_code,
                 last_save_time, last_backup_time, current_time, ticks>>

\* create_backup raises: a file listed at line 920 is gone when line 922
\* asks for its modification time
TickBackupRaises ==
  /\ Raised("in_backup")
  /\ UNCHANGED <<serialFrame, files, hashes, running, shutdown_signals_count, exit_code,
                 last_save_time, last_backup_time, current_time, ticks>>

\* lines 1067-1068: create_backup returns
TickBackupReturns ==
  /\ Returned("in_backup", "sleep")
  /\ \E b \in create_backup(files, hashes, {}) :
       /\ files' = b.files
       /\ hashes' = b.hashes
  /\ last_backup_time' = current_time
  /\ UNCHANGED <<serialFrame, now, running, shutdown_signals_count, exit_code,
                 last_save_time, current_time, ticks>>

\* time.sleep(1)
SerialSleep ==
  /\ pc = "sleep"
  /\ now' = now + TickSleep
  /\ pc' = "loop"
  /\ last' = Calls("sleep", last.active)
  /\ UNCHANGED <<serialFrame, files, hashes, running, shutdown_signals_count, exit_code,
                 last_save_time, last_backup_time, current_time, ticks>>

\* save_cache(logger), line 1082
FinalSaveCalled ==
  /\ Called("final_save", "save", "in_final_save")
  /\ UNCHANGED <<serialFrame, files, hashes, now, running, shutdown_signals_count, exit_code,
                 last_save_time, last_backup_time, current_time, ticks>>

\* lines 1082-1083: it returns and main() ends
FinalSaveReturns ==
  /\ Returned("in_final_save", "stopped")
  /\ SaveEffect
  /\ exit_code' = <<0>>
  /\ UNCHANGED <<serialFrame, now, running, shutdown_signals_count,
                 last_save_time, last_backup_time, current_time, ticks>>

NextSerial ==
  \/ SerialSignal
  \/ SerialWaitForServer
  \/ StartupLoadCalled
  \/ StartupLoadReturns
  \/ StartupBackupCalled
  \/ StartupBackupReturns
  \/ SerialLoopCheck
  \/ SerialNoCommand
  \/ NamedBackupCalled
  \/ NamedBackupReturns
  \/ CommandLoadCalled
  \/ CommandLoadReturns
  \/ SerialReadClock
  \/ TickSaveCalled
  \/ TickSaveSkipped
  \/ TickSaveReturns
  \/ TickSaveRaises
  \/ TickBackupCalled
  \/ TickBackupSkipped
  \/ TickBackupReturns
  \/ TickBackupRaises
  \/ SerialSleep
  \/ FinalSaveCalled
  \/ FinalSaveReturns

SpecSerial == InitSerial /\ [][NextSerial]_vars

\* the positions of main()
SerialPositions ==
  {"wait_for_server", "load", "in_load", "startup_backup", "in_startup_backup", "loop",
   "command", "in_named_backup", "in_command_load", "clock", "save", "in_save", "backup",
   "in_backup", "sleep", "final_save", "in_final_save", "stopped"}

\* lines 419-480: the interactive restore is at the prompt of line 550, which
\* it shows when the session has a snapshot whose timestamp can be decoded
AtPrompt ==
  /\ pc = "in_command_load"
  /\ DOMAIN TimestampGroups(CacheNames(files)) # {}

\* main() leaves the position it is at: the statement there is executed, or
\* the server call or the sleep in progress there returns.  Not a position:
\* the prompt, which returns when the operator answers; the loop test is
\* left while the count of iterations allows one more
SerialProceeds ==
  /\ pc \in SerialPositions \ {"stopped"}
  /\ ~AtPrompt
  /\ (pc = "loop" /\ running) => ticks < MaxSerialTicks
  /\ pc' \in SerialPositions \ {pc}

\* the operator answers the prompt of the interactive restore
SerialPromptAnswered ==
  /\ AtPrompt
  /\ pc' \in {"clock", "loop"}

\* main() where every server call and every sleep in progress returns; the
\* operator may leave the prompt of the interactive restore unanswered
SpecSerialLive == InitSerial /\ [][NextSerial]_vars /\ WF_pc(SerialProceeds)

\* main() where, besides, the operator answers every prompt
SpecSerialAnswered ==
  InitSerial /\ [][NextSerial]_vars /\ WF_pc(SerialProceeds) /\ WF_pc(SerialPromptAnswered)

-----------------------------------------------------------------------------
(* Slot discovery on its own: get_all_slots_with_data for every answer of  *)
(* the bulk listing and of the slots' status queries                       *)

\* the answers the server is going to give, nothing discovered yet
Undiscovered(response, status) ==
  [op |-> "none", response |-> response, status |-> status, discovered |-> <<>>,
   enumerated |-> FALSE, raised |-> FALSE, probed |-> {}]

InitDiscover ==
  /\ base_name = SessionName
  /\ MAX_FILES = MaxCap
  /\ MAX_BACKUPS = MaxCap
  /\ files = <<>>
  /\ hashes = <<>>
  /\ now = StartClock
  /\ pc = "discover"
  /\ running = TRUE
  /\ shutdown_signals_count = 0
  /\ exit_code = <<>>
  /\ last_save_time = 0
  /\ last_backup_time = 0
  /\ current_time = 0
  /\ slot_id_var = SLOT_ID
  /\ ticks = 0
  /\ \E response \in ListingResponsesOver(MaxListing) :
     \E status \in [SlotIds -> SlotStatusAnswers \cup {StatusNotObject}] :
       last = Undiscovered(response, status)
  /\ naming = NoNaming

\* slots_with_data = get_all_slots_with_data(log), line 777
Discover ==
  /\ pc = "discover"
  /\ last.op = "none"
  /\ \E d \in {Discovery(last.response, last.status)} :
       last' = [last EXCEPT !.op = "discover", !.discovered = d.discovered,
                            !.enumerated = d.enumerated, !.raised = d.raised,
                            !.probed = d.probed]
  /\ UNCHANGED <<configVars, files, hashes, now, pc, running, shutdown_signals_count, exit_code,
                 last_save_time, last_backup_time, current_time, slot_id_var, ticks, naming>>

NextDiscover ==
  \/ Discover

SpecDiscover == InitDiscover /\ [][NextDiscover]_vars

-----------------------------------------------------------------------------
(* The operator console on its own: lines typed one after the other into a *)
(* running process, in iterations of the loop in which no timer is due     *)

\* a file an operator copied into the directory: it matches the session's
\* pattern and carries a timestamp, but no slot id can be decoded from it
ForeignSnapshot(t, content) ==
  [name |-> SessionName \o SLOT_SEP \o <<"x">> \o UNDERSCORE \o FormatTs(t) \o BIN_EXT,
   mtime |-> t, content |-> content, sidecar |-> FALSE]

\* the initial directories, and one whose newest group holds such a file
ConsoleDirs ==
  InitialDirs \cup {DirOf({OldSnapshot(0, 1, 1), ForeignSnapshot(1, 1)})}

InitConsole ==
  /\ base_name = SessionName
  /\ MAX_FILES = MaxCap
  /\ MAX_BACKUPS = MaxCap
  /\ \E d \in ConsoleDirs :
       /\ files = d.files
       /\ hashes = d.hashes
  /\ now = StartClock
  /\ pc = "command"
  /\ running = TRUE
  /\ shutdown_signals_count = 0
  /\ exit_code = <<>>
  /\ last_save_time = StartClock
  /\ last_backup_time = StartClock
  /\ current_time = StartClock
  /\ slot_id_var = SLOT_ID
  /\ ticks = 0
  /\ last = Idle
  /\ naming = NoNaming

\* a line is waiting: process_command, as in Command, the line recorded
ConsoleCommand ==
  /\ pc = "command"
  /\ ticks < MaxCommands
  /\ ticks' = ticks + 1
  /\ \E command \in Commands :
     \E input \in IF command.cmd = "load" THEN OperatorInputs ELSE {Idle.input} :
     \E answers \in IF command.cmd = "load" THEN [SlotIds -> RestoreAnswers]
                   ELSE {[k \in SlotIds |-> "200"]} :
     \E c \in {process_command(files, hashes, slot_id_var, command, input, answers)} :
       /\ files' = c.files
       /\ hashes' = c.hashes
       /\ slot_id_var' = c.slot_id
       /\ last' = [c.did EXCEPT !.command = <<command>>]
       /\ pc' = IF c.did.raised THEN "loop" ELSE "clock"
       /\ now' = IF c.did.raised THEN now + ErrorSleep ELSE now
  /\ UNCHANGED <<configVars, running, shutdown_signals_count, exit_code,
                 last_save_time, last_backup_time, current_time, naming>>

\* the rest of an iteration in which neither timer is due (lines 1062-1069),
\* up to the next line of the console
ConsoleTick ==
  /\ pc \in {"clock", "loop"}
  /\ pc' = "command"
  /\ now' = IF pc = "clock" THEN now + TickSleep ELSE now
  /\ last' = Idle
  /\ UNCHANGED <<configVars, files, hashes, running, shutdown_signals_count, exit_code,
                 last_save_time, last_backup_time, current_time, slot_id_var, ticks, naming>>

NextConsole ==
  \/ ConsoleCommand
  \/ ConsoleTick

SpecConsole == InitConsole /\ [][NextConsole]_vars

-----------------------------------------------------------------------------
(* The health check on its own: wait_for_server with a retry budget, one   *)
(* step per health request                                                 *)

\* what one GET /health gives: status 200, another status, an exception of
\* requests (RequestException, Timeout), or any other exception
HealthAnswers == {"200", "503", "request_error", "other_error"}

\* retry_delay of wait_for_server
retry_delay == 2

\* the call of wait_for_server in progress: its budget, the answers of the
\* requests issued so far, the number of sleeps, and how it ended
Waiting(retries) ==
  [op |-> "waiting", retries |-> retries, answers |-> <<>>, sleeps |-> 0, result |-> FALSE]

InitWait ==
  /\ base_name = SessionName
  /\ MAX_FILES = MaxCap
  /\ MAX_BACKUPS = MaxCap
  /\ files = <<>>
  /\ hashes = <<>>
  /\ now = StartClock
  /\ pc = "health"
  /\ running = TRUE
  /\ shutdown_signals_count = 0
  /\ exit_code = <<>>
  /\ last_save_time = 0
  /\ last_backup_time = 0
  /\ current_time = 0
  /\ slot_id_var = SLOT_ID
  /\ ticks = 0
  /\ \E retries \in 0..MaxRetries : last = Waiting(retries)
  /\ naming = NoNaming

waitFrame == <<configVars, files, hashes, pc, running, shutdown_signals_count, exit_code,
               last_save_time, last_backup_time, current_time, slot_id_var, ticks, naming>>

\* lines 190-199: the body of the loop for one answer of the server; w: the
\* call so far
HealthAttempt(w, answer) ==
  IF answer = "200"
  THEN [w EXCEPT !.answers = Append(@, answer), !.op = "returned", !.result = TRUE]
  ELSE IF answer = "other_error"
  THEN [w EXCEPT !.answers = Append(@, answer), !.op = "raised"]
  ELSE IF Len(w.answers) < w.retries - 1
  THEN [w EXCEPT !.answers = Append(@, answer), !.sleeps = @ + 1]
  ELSE [w EXCEPT !.answers = Append(@, answer)]

\* for attempt in range(max_retries): one more health request
HealthRequest ==
  /\ pc = "health"
  /\ last.op = "waiting"
  /\ Len(last.answers) < last.retries
  /\ \E answer \in HealthAnswers :
     \E w \in {HealthAttempt(last, answer)} :
       /\ last' = w
       /\ now' = now + (w.sleeps - last.sleeps) * retry_delay
  /\ UNCHANGED waitFrame

\* lines 199-200: the budget is used up, wait_for_server returns False
WaitGivesUp ==
  /\ pc = "health"
  /\ last.op = "waiting"
  /\ Len(last.answers) >= last.retries
  /\ last' = [last EXCEPT !.op = "returned", !.result = FALSE]
  /\ UNCHANGED <<waitFrame, now>>

NextWait ==
  \/ HealthRequest
  \/ WaitGivesUp

SpecWait == InitWait /\ [][NextWait]_vars

-----------------------------------------------------------------------------
(* Vocabulary of the properties: the files of the directory by the triple  *)
(* that names them                                                         *)

SnapshotName(slot_id, t) == CacheFileName(base_name, slot_id, FormatTs(t))

BackupName(slot_id, t) == BackupFileName(BACKUP_LABEL, SnapshotName(slot_id, t))

\* the clock values that have a snapshot (backup) group in the directory
SnapshotClocks == {t \in 0..MaxTime : \E k \in SlotIds : SnapshotName(k, t) \in DOMAIN files}

BackupClocks == {t \in 0..MaxTime : \E k \in SlotIds : BackupName(k, t) \in DOMAIN files}

\* the restore requests that restore a whole group
SnapshotGroup(t) ==
  {[slot |-> k, filename |-> SnapshotName(k, t)] :
     k \in {j \in SlotIds : SnapshotName(j, t) \in DOMAIN files}}

BackupGroup(t) ==
  {[slot |-> k, filename |-> BackupName(k, t)] :
     k \in {j \in SlotIds : BackupName(j, t) \in DOMAIN files}}

Greatest(S) == CHOOSE t \in S : \A u \in S : u <= t

RECURSIVE Descending(_)
Descending(S) == IF S = {} THEN <<>> ELSE <<Greatest(S)>> \o Descending(S \ {Greatest(S)})

\* the backup files of the session, whatever their label
AnyLabelBackups ==
  DOMAIN files \cap
    {BackupFileName(l, n) : l \in {BACKUP_LABEL} \cup TypedBackupNames, n \in KnownCacheNames}

\* positions of main() from the start of the loop on, between two cycles
LoopPositions == {"loop", "command", "clock", "save", "backup", "sleep", "final_save"}

SaveRan == last.op = "save"

AutoRestoreRan == last.op = "load" /\ ~last.interactive

InteractiveRestoreRan == last.op = "load" /\ last.interactive /\ ~last.input.eof

\* the attempts of the last save cycle that saved their slot
SavedAttempts ==
  {i \in 1..Len(last.attempts) : last.attempts[i].status = "200" /\ last.attempts[i].exists}

\* the attempts the server acknowledged without the file being there
GhostAttempts ==
  {i \in 1..Len(last.attempts) : last.attempts[i].status = "200" /\ ~last.attempts[i].exists}

-----------------------------------------------------------------------------
(* Properties *)

RotationBoundsCount ==
  /\ last.rotated = "cache" =>
       /\ Cardinality(CacheNames(files)) <= MAX_FILES
       /\ Cardinality(CacheNames(files)) + Cardinality(last.deleted) <= MAX_FILES =>
            last.deleted = {}
  /\ last.rotated = "backup" =>
       /\ Cardinality(BackupNames(files)) <= MAX_BACKUPS
       /\ Cardinality(BackupNames(files)) + Cardinality(last.deleted) <= MAX_BACKUPS =>
            last.deleted = {}

\* C4: between two cycles of the running loop the session has at most
\* MAX_FILES snapshot files and at most MAX_BACKUPS backup files of any
\* label (stated for maxima of at least 1)
RetentionHolds ==
  (pc \in LoopPositions /\ MAX_FILES >= 1 /\ MAX_BACKUPS >= 1) =>
    /\ Cardinality(CacheNames(files)) <= MAX_FILES
    /\ Cardinality(AnyLabelBackups) <= MAX_BACKUPS

\* C5: a rotation deletes no file newer than a file it keeps, and keeps
\* exactly the max_count newest
RotationDeletesOldest ==
  last.rotated # "none" =>
    LET kept == IF last.rotated = "cache" THEN CacheNames(files) ELSE BackupNames(files)
        max_count == IF last.rotated = "cache" THEN MAX_FILES ELSE MAX_BACKUPS
    IN /\ \A d \in last.deleted : \A n \in kept : d.mtime <= files[n].mtime
       /\ Cardinality(kept) = Min(max_count, Cardinality(kept) + Cardinality(last.deleted))

\* C6: the name of a triple decodes to the slot and the timestamp of the
\* triple
NameRoundTrip ==
  naming.phase = "decoded" =>
    /\ naming.slot_out = <<naming.slot>>
    /\ naming.timestamp_out = <<naming.timestamp>>

\* C7: automatic restore requests exactly the files of the snapshot group
\* with the greatest timestamp, each into the slot of its name
AutoRestoreTakesNewestGroup ==
  AutoRestoreRan =>
    /\ ~last.raised
    /\ last.requests = IF SnapshotClocks = {} THEN {} ELSE SnapshotGroup(Greatest(SnapshotClocks))

\* an automatic restore with an older group of slot 1 and a newer of slot 0
AutoRestoreTakesNewestGroupWitness ==
  /\ AutoRestoreRan
  /\ SnapshotName(1, 0) \in DOMAIN files
  /\ SnapshotName(0, 1) \in DOMAIN files
  /\ SnapshotName(1, 1) \notin DOMAIN files
  /\ last.requests = {[slot |-> 0, filename |-> SnapshotName(0, 1)]}
  /\ last.result

\* C8: automatic restore with no snapshot but with backups restores the
\* newest backup group
AutoRestoreFallsBackToBackups ==
  (AutoRestoreRan /\ SnapshotClocks = {} /\ BackupClocks # {}) =>
    last.requests = BackupGroup(Greatest(BackupClocks))

\* the candidates of the interactive list: snapshot groups newest first,
\* then backup groups newest first
ListedCandidates ==
  [k \in 1..(Cardinality(SnapshotClocks) + Cardinality(BackupClocks)) |->
     IF k <= Cardinality(SnapshotClocks)
     THEN SnapshotGroup(Descending(SnapshotClocks)[k])
     ELSE BackupGroup(Descending(BackupClocks)[k - Cardinality(SnapshotClocks)])]

\* C9: entering the index of a listed candidate requests exactly the files
\* of that candidate, and raises nothing
InteractiveRestoresListedGroup ==
  (InteractiveRestoreRan /\ SnapshotClocks # {}) =>
    \A k \in DOMAIN ListedCandidates :
      last.input.line = Str(k) => (~last.raised /\ last.requests = ListedCandidates[k])

\* what the operator typed is the skip index, a number outside the list, or
\* not a number
SkipsOrInvalid(line) ==
  LET n == Cardinality(SnapshotClocks) + Cardinality(BackupClocks)
  IN /\ line # <<>>
     /\ \/ ParseInt(line) = <<>>
        \/ ParseInt(line)[1] < 1
        \/ ParseInt(line)[1] > n

\* C10: the skip index, an out-of-range number and a non-numeric input all
\* send no restore request and report failure
InteractiveSkipRestoresNothing ==
  (InteractiveRestoreRan /\ SkipsOrInvalid(last.input.line)) =>
    (last.requests = {} /\ ~last.result /\ ~last.raised)

\* the list was shown with a snapshot group and the operator typed 9
InteractiveSkipRestoresNothingWitness ==
  /\ InteractiveRestoreRan
  /\ SnapshotClocks # {}
  /\ last.input.line = <<"9">>
  /\ last.requests = {}
  /\ ~last.result

\* the files the last restore asked the server for
RestoreAsked == {[slot |-> r.slot, filename |-> r.filename] : r \in last.restores}

RestoreWithoutSnapshots ==
  /\ last.op = "load"
  /\ SnapshotClocks = {}
  /\ last.restores = {}
  /\ ~last.result

\* C12: a change-detecting backup cycle that directly follows another one
\* copies nothing and leaves the directory as it is
BackupIsIdempotent ==
  [][(last.op = "backup" /\ last'.op = "backup") => (last'.copied = {} /\ files' = files)]_vars

\* the snapshot files of the latest group
LatestSnapshots == {r.filename : r \in SnapshotGroup(Greatest(SnapshotClocks))}

Fingerprint(n) == IF n \in DOMAIN hashes THEN hashes[n] ELSE FileHash(files[n].content)

\* the change-detection backups of a slot, and the newest by modification time
BackupsOf(k) == {n \in DOMAIN files : \E t \in 0..MaxTime : n = BackupName(k, t)}

NewestBackupsOf(k) ==
  {n \in BackupsOf(k) : \A m \in BackupsOf(k) : files[m].mtime <= files[n].mtime}

\* some slot of the latest snapshot group has no backup, or a newest backup
\* with another fingerprint than its snapshot
SomeSlotChanged ==
  /\ SnapshotClocks # {}
  /\ \E r \in SnapshotGroup(Greatest(SnapshotClocks)) :
       \/ BackupsOf(r.slot) = {}
       \/ \E n \in NewestBackupsOf(r.slot) : Fingerprint(n) # Fingerprint(r.filename)

BackupAfterCompareError ==
  /\ last.op = "backup"
  /\ last.compare_error
  /\ last.copied # {}

\* a backup cycle found every slot's fingerprint equal and copied nothing
BackupSkipped ==
  /\ last.op = "backup"
  /\ SnapshotClocks # {}
  /\ \A r \in SnapshotGroup(Greatest(SnapshotClocks)) : BackupsOf(r.slot) # {}
  /\ last.copied = {}

\* C15: after a change-detecting backup cycle that copied files, rotation
\* included, every slot of the latest snapshot group has a backup file with
\* the group's timestamp
BackupGroupComplete ==
  (last.op = "backup" /\ last.copied # {}) =>
    \A r \in SnapshotGroup(Greatest(SnapshotClocks)) :
      BackupName(r.slot, Greatest(SnapshotClocks)) \in DOMAIN files

SidecarsCurrent ==
  \A n \in DOMAIN hashes : n \in DOMAIN files /\ hashes[n] = FileHash(files[n].content)

\* the snapshot files of a directory, with their contents
SnapshotsOf(fs) == {<<n, fs[n].content>> : n \in CacheNames(fs)}

\* C18: once the first request has arrived, the only step that changes the
\* snapshot files is a final save that completes without a second request;
\* so when the second request arrives before or during the final save, the
\* snapshot files are those of the moment of the first request
SecondSignalSkipsSave ==
  [][(~running /\ SnapshotsOf(files') # SnapshotsOf(files)) =>
       (pc = "final_save" /\ shutdown_signals_count' = 1)]_vars

\* C19: after the first request no backup cycle is started, the only save
\* cycle started is the final save, and a process that stops after one
\* request has run it
OneSaveAfterSignal ==
  [][(~running /\ pc \in LoopPositions) =>
       /\ last'.op = "save" => pc = "final_save"
       /\ last'.op # "backup"
       /\ (pc' = "stopped" /\ shutdown_signals_count' = 1) => last'.op = "save"]_vars

\* C20: while the process waits for the server it has issued no operation
\* and no step changes a file; when wait_for_server returns False the
\* process stops with exit status 1; a stopped process takes no step
ExitsWithoutServer ==
  [][/\ pc # "stopped"
     /\ pc = "wait_for_server" =>
          /\ last.op \in {"none", "signal"}
          /\ files' = files /\ hashes' = hashes
          /\ (last'.op = "wait" /\ ~last'.result) => (pc' = "stopped" /\ exit_code' = <<1>>)]_vars

\* the process has stopped with status 1 after an unsuccessful wait, the
\* two snapshot groups of the directory still in place
ExitsWithoutServerWitness ==
  /\ pc = "stopped"
  /\ exit_code = <<1>>
  /\ last.op = "wait"
  /\ ~last.result
  /\ DOMAIN files = {SnapshotName(1, 0), SnapshotName(0, 1)}

\* C21: wait_for_server issues at most its budget of health requests; it
\* returns True exactly at the first answer 200, which is the last request
\* issued; it never raises, and once every request of the budget has failed
\* it returns False
WaitForServerContract ==
  /\ last.op \in {"waiting", "returned"}
  /\ Len(last.answers) <= last.retries
  /\ \A i \in 1..Len(last.answers) : last.answers[i] = "200" => i = Len(last.answers)
  /\ last.op = "returned" =>
       /\ last.result <=> (last.answers # <<>> /\ last.answers[Len(last.answers)] = "200")
       /\ ~last.result => Len(last.answers) = last.retries

\* C21 for the errors line 196 catches: the same, in the calls none of whose
\* requests raised another exception
WaitForServerContractCaught ==
  (\A i \in 1..Len(last.answers) : last.answers[i] # "other_error") => WaitForServerContract

\* a budget of three used up by a status, a timeout and a status: False
\* after three requests and two sleeps
WaitGaveUp ==
  /\ last.op = "returned"
  /\ ~last.result
  /\ last.retries = 3
  /\ last.answers = <<"503", "request_error", "503">>
  /\ last.sleeps = 2

\* the second request of a budget of three was answered 200: True after
\* two requests
WaitSucceededEarly ==
  /\ last.op = "returned"
  /\ last.result
  /\ last.retries = 3
  /\ last.answers = <<"request_error", "200">>

\* what the operator typed is malformed: `slot` with an argument that is not
\* an integer or is negative, `backup` with a name that has a character
\* other than a letter, digit, '_' or '-', or an unknown command word
Malformed(command) ==
  \/ /\ command.cmd = "slot" /\ command.has_arg
     /\ (ParseInt(command.arg) = <<>> \/ ParseInt(command.arg)[1] < 0)
  \/ /\ command.cmd = "backup" /\ command.has_arg
     /\ \E i \in 1..Len(command.arg) : ~IsAlnumChar(command.arg[i]) /\ command.arg[i] \notin {"_", "-"}
  \/ command.cmd \notin {"backup", "load", "restore", "slot", "help"}

\* C22: a malformed command is rejected and changes nothing: the default
\* slot id, the session, the files and their sidecars stay as they were,
\* nothing is raised and the process goes on with the rest of its iteration
MalformedCommandRejected ==
  [][(last'.command # <<>> /\ Malformed(last'.command[1])) =>
       /\ last'.op = "rejected"
       /\ ~last'.raised
       /\ slot_id_var' = slot_id_var
       /\ base_name' = base_name
       /\ files' = files
       /\ hashes' = hashes
       /\ pc' = "clock"
       /\ running' = running
       /\ exit_code' = exit_code]_vars

\* `slot x` typed after `slot 1`: rejected, the default slot id is still 1
MalformedCommandRejectedWitness ==
  /\ last.op = "rejected"
  /\ last.command = <<[cmd |-> "slot", has_arg |-> TRUE, arg |-> <<"x">>]>>
  /\ slot_id_var = 1
  /\ pc = "clock"

\* `backup b!` was rejected in a directory that has a snapshot to copy
InvalidBackupNameRejected ==
  /\ last.op = "rejected"
  /\ last.command = <<[cmd |-> "backup", has_arg |-> TRUE, arg |-> <<"b", "!">>]>>
  /\ SnapshotClocks # {}

\* C23: `load` and `restore` each invoke the interactive restore selection
\* and nothing else: the step is a load_cache with interactive=True, and it
\* changes neither the files nor the default slot id
LoadAndRestoreEquivalent ==
  [][(last'.command # <<>> /\ last'.command[1].cmd \in {"load", "restore"}) =>
       /\ last'.op = "load"
       /\ last'.interactive
       /\ files' = files
       /\ hashes' = hashes
       /\ slot_id_var' = slot_id_var]_vars

\* C23 for `load` alone
LoadInvokesRestoreSelection ==
  [][(last'.command # <<>> /\ last'.command[1].cmd = "load") =>
       /\ last'.op = "load"
       /\ last'.interactive
       /\ files' = files
       /\ hashes' = hashes
       /\ slot_id_var' = slot_id_var]_vars

\* `restore` was typed and rejected as an unknown command
RestoreCommandRejected ==
  /\ last.command # <<>>
  /\ last.command[1].cmd = "restore"
  /\ last.op = "rejected"

\* the slot a restore request for the file is to be sent to: the slot of
\* its name, the default slot id when none can be decoded
RestoreTarget(n) == IF SlotIdOf(n) = <<>> THEN slot_id_var ELSE SlotIdOf(n)[1]

\* C24: a restore that sends a request for a file of a group sends one for
\* every file of the group, to the slot of the file's name, and to the
\* default slot id for a file from whose name no slot id can be decoded
UndecodedGoesToDefaultSlot ==
  last.op = "load" =>
    /\ \A r \in last.requests : r.slot = RestoreTarget(r.filename)
    /\ \A n \in CacheNames(files) :
         (TimestampOf(n) # <<>> /\ \E r \in last.requests : TimestampOf(r.filename) = TimestampOf(n))
           => [slot |-> RestoreTarget(n), filename |-> n] \in last.requests

\* C24 for the files whose slot id can be decoded: the request goes to that
\* slot, whatever the default slot id is
DecodedSlotUsed ==
  last.op = "load" => \A r \in last.requests : <<r.slot>> = SlotIdOf(r.filename)

\* a restore after `slot 1` of a group that holds slot 0's file and a file
\* without a slot id: the only request is the one for slot 0
UndecodedFileSkipped ==
  /\ last.op = "load"
  /\ slot_id_var = 1
  /\ \E n \in CacheNames(files) : SlotIdOf(n) = <<>> /\ TimestampOf(n) = <<FormatTs(1)>>
  /\ last.requests = {[slot |-> 0, filename |-> SnapshotName(0, 1)]}

\* the slots whose status the discovery asks for when no check raises:
\* those the listing names, or the first MAX_SLOTS_TO_CHECK when there is no
\* listing
Queried ==
  IF last.response.status # "200" THEN 0..(MAX_SLOTS_TO_CHECK - 1)
  ELSE IF last.response.kind = "list"
  THEN {last.response.items[i].id :
          i \in {j \in 1..Len(last.response.items) : last.response.items[j].kind # "other"}}
  ELSE IF last.response.kind = "mapping"
  THEN {ParseInt(last.response.items[i])[1] :
          i \in {j \in 1..Len(last.response.items) : ParseInt(last.response.items[j]) # <<>>}}
  ELSE {}

\* the slot's status query succeeded and reported used context
ReportsData(k) ==
  /\ k \in SlotIds
  /\ last.status[k].status = "200"
  /\ (last.status[k].n_ctx_used > 0 \/ last.status[k].n_prompt_tokens > 0)

\* C25: discovery returns a slot id exactly when the slot was asked for, its
\* status query succeeded and it reported n_ctx_used > 0 or
\* n_prompt_tokens > 0
DiscoveryIncludesIffValid ==
  (last.op = "discover" /\ ~last.raised) =>
    /\ \A k \in Range(last.discovered) \cup SlotIds :
         k \in Range(last.discovered) <=> (k \in last.probed /\ ReportsData(k))
    /\ (last.response.status = "200" => ~last.enumerated) => last.probed = Queried

\* the listing names slots 1 and 0: slot 1 reports prompt tokens only, the
\* status query of slot 0 times out, and the result is slot 1 alone
DiscoveryIncludesIffValidWitness ==
  /\ last.op = "discover"
  /\ last.response.kind = "list"
  /\ Queried = {0, 1}
  /\ last.status[0].status = "exception"
  /\ last.status[1] = [status |-> "200", n_ctx_used |-> 0, n_prompt_tokens |-> 1]
  /\ last.discovered = <<1>>

\* C26: discovery returns the slot ids in strictly ascending order
DiscoveryStrictlyAscending ==
  last.op = "discover" =>
    \A i \in 1..(Len(last.discovered) - 1) : last.discovered[i] < last.discovered[i + 1]

\* C26 without the repetitions: the ids are in ascending order, and a
\* listing that names no slot twice gives no id twice
DiscoveryAscending ==
  last.op = "discover" =>
    /\ \A i \in 1..(Len(last.discovered) - 1) : last.discovered[i] <= last.discovered[i + 1]
    /\ (last.response.kind = "list" /\ ~last.enumerated /\
        \A i, j \in 1..Len(last.response.items) :
          (last.response.items[i].kind # "other" /\ last.response.items[j].kind # "other" /\
           last.response.items[i].id = last.response.items[j].id) => i = j)
         => \A i \in 1..(Len(last.discovered) - 1) : last.discovered[i] < last.discovered[i + 1]

\* the listing named slot 0 twice and discovery returned it twice
DiscoveryRepeatsSlot ==
  /\ last.op = "discover"
  /\ last.response.kind = "list"
  /\ last.discovered = <<0, 0>>

\* no slot holds data: discovery returns the empty list
DiscoveryEmpty ==
  /\ last.op = "discover"
  /\ last.response.status = "200"
  /\ Queried # {}
  /\ last.discovered = <<>>

\* C27: at most one of save cycle, backup cycle and restore is in progress,
\* and an operation is called only when none is
OperationsSerialized ==
  [][/\ Len(last.active) <= 1
     /\ Len(last'.active) > Len(last.active) => last.active = <<>>]_vars

\* the first signal arrived during the scheduled save of an iteration; that
\* save returned, and the final save is now in progress alone
OperationsSerializedWitness ==
  /\ pc = "in_final_save"
  /\ last.active = <<"save">>
  /\ shutdown_signals_count = 1
  /\ last_save_time = current_time
  /\ ticks >= 2

\* a signal arrived while a backup cycle was in progress
SignalDuringBackup ==
  /\ pc = "in_backup"
  /\ last.op = "signal"
  /\ last.active = <<"backup">>

\* the files of a session: <session>_<timestamp>.bin, the timestamp with
\* or without a slot id before it
SessionFiles(x) ==
  DOMAIN files \cap {PlainFileName(x, FormatTs(0)), CacheFileName(x, 0, FormatTs(0))}

\* the sessions that have a file
SessionsOnDisk == {x \in {<<"a">>, <<"b">>} : SessionFiles(x) # {}}

\* the newest modification time of the files of a session
NewestOf(x) == Greatest({files[n].mtime : n \in SessionFiles(x)})

\* C28: the list holds every session that has a file named
\* <session>_<timestamp>.bin, each once, the most recently modified first
SessionsListed ==
  last.op = "sessions" =>
    /\ Range(last.names) = SessionsOnDisk
    /\ \A i, j \in 1..Len(last.names) : last.names[i] = last.names[j] => i = j
    /\ \A i, j \in 1..Len(last.names) :
         (i < j /\ last.names[i] \in SessionsOnDisk /\ last.names[j] \in SessionsOnDisk)
           => NewestOf(last.names[i]) >= NewestOf(last.names[j])

\* C28 for the names the program writes, <session>_slot<id>_<timestamp>.bin:
\* the list holds the sessions that have such a file, each once, the
\* most recently modified first; files without "_slot" are not counted
SessionsListedBySlotNames ==
  last.op = "sessions" =>
    /\ Range(last.names) =
         {x \in {<<"a">>, <<"b">>} : CacheFileName(x, 0, FormatTs(0)) \in DOMAIN files}
    /\ \A i, j \in 1..Len(last.names) : last.names[i] = last.names[j] => i = j
    /\ \A i, j \in 1..Len(last.names) :
         i < j => files[CacheFileName(last.names[i], 0, FormatTs(0))].mtime
                    >= files[CacheFileName(last.names[j], 0, FormatTs(0))].mtime

\* the directory holds a_<timestamp>.bin alone and the list is empty
PlainNameNotListed ==
  /\ last.op = "sessions"
  /\ DOMAIN files = {PlainFileName(<<"a">>, FormatTs(0))}
  /\ last.names = <<>>

\* two sessions with slot files, b modified after a: b comes first
NewestSessionFirst ==
  /\ last.op = "sessions"
  /\ last.names = <<(<<"b">>), (<<"a">>)>>
  /\ files[CacheFileName(<<"b">>, 0, FormatTs(0))].mtime
       > files[CacheFileName(<<"a">>, 0, FormatTs(0))].mtime

\* the files of the directory after a step that the step wrote, and the
\* snapshot files it found and left as they were
WrittenByStep == {n \in DOMAIN files' : n \notin DOMAIN files \/ files'[n] # files[n]}

KeptByStep == {n \in CacheNames(files') \cap DOMAIN files : files'[n] = files[n]}

\* C29: the files a save cycle writes carry the session and one common
\* timestamp, and no snapshot file the cycle found on disk and left in place
\* carries that timestamp, so that the files of one timestamp are those of
\* one save cycle
SaveCycleOwnsGroup ==
  [][last'.op = "save" =>
       /\ \A n \in WrittenByStep :
            /\ StartsWith(n, base_name \o SLOT_SEP)
            /\ TimestampOf(n) = <<FormatTs(now)>>
       /\ \A n \in WrittenByStep : \A k \in KeptByStep : TimestampOf(k) # TimestampOf(n)]_vars

\* C29, first half: the files a save cycle writes carry the session and one
\* common timestamp
SaveCycleSharesTimestamp ==
  [][last'.op = "save" =>
       \A n \in WrittenByStep :
         /\ StartsWith(n, base_name \o SLOT_SEP)
         /\ TimestampOf(n) = <<FormatTs(now)>>]_vars

\* two save cycles ran in the same second of the clock: the first saved
\* slot 0, the second slot 1 only, and the group of that second holds both
GroupOfTwoCycles ==
  /\ last.op = "save"
  /\ ticks = 2
  /\ last.discovered = <<1>>
  /\ {SnapshotName(0, now), SnapshotName(1, now)} \subseteq DOMAIN files

\* the label of the backups a step made
LabelOfStep == IF last'.op = "named_backup" THEN last'.name ELSE BACKUP_LABEL

BackupWithoutSnapshots ==
  /\ last.op \in {"backup", "named_backup"}
  /\ SnapshotClocks = {}
  /\ AnyLabelBackups # {}
  /\ last.copied = {}

\* C31: a save cycle that discovered a slot runs snapshot rotation, once,
\* after the last slot's attempt, whether or not a slot was saved
RotationOncePerSaveCycle ==
  (last.op = "save" /\ last.discovered # <<>>) => last.rotated = "cache"

\* what the code does: the rotation runs exactly when a slot was saved
RotationOnlyAfterSuccess ==
  last.op = "save" => (last.rotated = "cache" <=> last.success_count > 0)

\* a save cycle that attempted every slot it discovered, saved none and did
\* not rotate
SaveCycleWithoutRotation ==
  /\ last.op = "save"
  /\ last.discovered # <<>>
  /\ Len(last.attempts) = Len(last.discovered)
  /\ last.success_count = 0
  /\ last.rotated = "none"

\* the bulk listing is unavailable: the request raised or its status is not 200
ListingUnavailable == last.response.status # "200"

\* C32: discovery enumerates the slot ids 0..MAX_SLOTS_TO_CHECK-1 exactly
\* when the bulk listing is unavailable; with a listing it asks only for the
\* slots the listing names; a result of the enumeration holds only ids below
\* MAX_SLOTS_TO_CHECK
EnumerationIffListingUnavailable ==
  last.op = "discover" =>
    /\ last.enumerated <=> ListingUnavailable
    /\ ~ListingUnavailable => last.probed \subseteq Queried
    /\ (last.enumerated /\ ~last.raised) =>
         \A i \in 1..Len(last.discovered) : last.discovered[i] < MAX_SLOTS_TO_CHECK

\* C32 for servers whose status bodies are JSON objects
EnumerationIffListingUnavailableWellFormed ==
  (last.op = "discover" /\ \A k \in SlotIds : last.status[k] # StatusNotObject) =>
    /\ last.enumerated <=> ListingUnavailable
    /\ ~ListingUnavailable => last.probed = Queried
    /\ ListingUnavailable => last.probed = 0..(MAX_SLOTS_TO_CHECK - 1)
    /\ ~last.raised
    /\ last.enumerated =>
         \A i \in 1..Len(last.discovered) : last.discovered[i] < MAX_SLOTS_TO_CHECK

\* the listing answered 200 and named slot 0, the status body of slot 0 was
\* no object, and the slots were enumerated
EnumeratedAfterListing ==
  /\ last.op = "discover"
  /\ last.response.status = "200"
  /\ last.response.kind = "list"
  /\ Queried = {0}
  /\ last.status[0] = StatusNotObject
  /\ last.enumerated

\* the listing was unavailable and the enumeration found slot 1 alone
EnumeratedWithoutListing ==
  /\ last.op = "discover"
  /\ ListingUnavailable
  /\ last.enumerated
  /\ last.probed = 0..(MAX_SLOTS_TO_CHECK - 1)
  /\ last.discovered = <<1>>

\* the iteration of the loop has just ended, by its sleep or by an exception
TickEnded == pc = "loop" /\ ticks >= 1 /\ last.op \in {"sleep", "raise"}

\* the positions of main() inside an iteration of the loop
TickPositions ==
  {"command", "in_named_backup", "in_command_load", "clock", "save", "in_save", "backup",
   "in_backup", "sleep"}

\* the place of a call in an iteration: the command, the save cycle, the backup cycle
TickRank(inside) ==
  CASE inside \in {"in_named_backup", "in_command_load"} -> 1
    [] inside = "in_save" -> 2
    [] inside = "in_backup" -> 3
    [] OTHER -> 0

\* the calls of the iteration are at most one command, then the save
\* cycle, then the backup cycle
TickInOrder ==
  \A i, j \in 1..Len(last.started) :
    i < j => (0 < TickRank(last.started[i]) /\ TickRank(last.started[i]) < TickRank(last.started[j]))

\* C33: an iteration of the loop processes at most one command, before its
\* save cycle, and runs its save cycle before its backup cycle; it starts a
\* save (backup) cycle exactly when SAVE_INTERVAL (BACKUP_INTERVAL) seconds
\* have passed since the last scheduled save (backup) was triggered
TickOrderAndSchedule ==
  /\ (ticks >= 1 /\ pc \in TickPositions) => TickInOrder
  /\ TickEnded =>
       /\ TickInOrder
       /\ ("in_save" \in Range(last.started)) <=> last.save_due
       /\ ("in_backup" \in Range(last.started)) <=> last.backup_due

\* C33 for the iterations that no exception ends
TickOrderAndScheduleUnlessRaised ==
  /\ (ticks >= 1 /\ pc \in TickPositions) => TickInOrder
  /\ (TickEnded /\ last.op = "sleep") =>
       /\ TickInOrder
       /\ ("in_save" \in Range(last.started)) <=> last.save_due
       /\ ("in_backup" \in Range(last.started)) <=> last.backup_due
  /\ (TickEnded /\ last.op = "raise") =>
       /\ ("in_save" \in Range(last.started)) => last.save_due
       /\ ("in_backup" \in Range(last.started)) => last.backup_due

\* the restore selection of the operator raised in an iteration whose save
\* timer was due: the iteration ended without a save cycle
DueSaveNotStarted ==
  /\ TickEnded
  /\ last.op = "raise"
  /\ last.started = <<"in_command_load">>
  /\ last.save_due

\* an iteration ran a named backup, the save cycle and the backup cycle
FullTick ==
  /\ TickEnded
  /\ last.op = "sleep"
  /\ last.started = <<"in_named_backup", "in_save", "in_backup">>
  /\ last.save_due
  /\ last.backup_due

\* the files a step removed from the directory
RemovedByStep == DOMAIN files \ DOMAIN files'

\* what a rotation leaves alone: no file is added or rewritten, and a
\* sidecar goes only with its file
RotationFrame ==
  /\ DOMAIN files' \subseteq DOMAIN files
  /\ \A n \in DOMAIN files' : files'[n] = files[n]
  /\ DOMAIN hashes' = DOMAIN hashes \ RemovedByStep
  /\ \A n \in DOMAIN hashes' : hashes'[n] = hashes[n]

\* C34: snapshot rotation deletes only snapshot files of the current session
\* and their sidecars, backup rotation deletes only backup files of the
\* current session and their sidecars, and every other file is left as it is
RotationScope ==
  [][/\ last'.op = "rotate_cache_files" =>
          /\ RotationFrame
          /\ \A n \in RemovedByStep :
               files[n].kind = "snapshot" /\ files[n].session = base_name
     /\ last'.op = "rotate_backups" =>
          /\ RotationFrame
          /\ \A n \in RemovedByStep :
               files[n].kind = "backup" /\ files[n].session = base_name]_vars

\* no file of the directory was written by the session `backup_<session>`
\* or for it, and the process does not run as that session
NoSessionNamedAsBackup ==
  /\ base_name # BACKUP_LABEL \o UNDERSCORE \o SessionName
  /\ \A n \in DOMAIN files : files[n].session # BACKUP_LABEL \o UNDERSCORE \o SessionName

\* C34 in directories without a session whose name is `backup_` and the
\* name of another session
RotationScopeDistinctSessions ==
  [][NoSessionNamedAsBackup =>
       /\ last'.op = "rotate_cache_files" =>
            /\ RotationFrame
            /\ \A n \in RemovedByStep :
                 files[n].kind = "snapshot" /\ files[n].session = base_name
       /\ last'.op = "rotate_backups" =>
            /\ RotationFrame
            /\ \A n \in RemovedByStep :
                 files[n].kind = "backup" /\ files[n].session = base_name
                 /\ StartsWith(n, BACKUP_LABEL)]_vars

\* the process runs as session backup_s and its snapshot rotation has
\* deleted a backup of session s
SnapshotRotationDeletedBackup ==
  /\ last.op = "rotate_cache_files"
  /\ base_name = BACKUP_LABEL \o UNDERSCORE \o SessionName
  /\ \E d \in last.deleted :
       d.name = BackupFileName(BACKUP_LABEL, CacheFileName(SessionName, 0, FormatTs(0)))
  /\ BackupFileName(BACKUP_LABEL, CacheFileName(SessionName, 0, FormatTs(1))) \in DOMAIN files

\* the process runs as session s and its backup rotation has deleted the
\* oldest of its backups, next to snapshots of sessions s and t
BackupRotationInScope ==
  /\ last.op = "rotate_backups"
  /\ base_name = SessionName
  /\ MAX_BACKUPS = 1
  /\ {d.name : d \in last.deleted}
       = {BackupFileName(BACKUP_LABEL, CacheFileName(SessionName, 0, FormatTs(0)))}
  /\ \E n \in DOMAIN files : files[n].kind = "snapshot"

\* the files of the slots the last save cycle saved
SavedFiles == {last.attempts[i].filename : i \in SavedAttempts}

\* C35: after a save cycle and its rotation, with MAX_FILES >= 1, the file
\* of every slot saved in the cycle is on disk, in the group with the newest
\* timestamp
SaveKeepsWrittenFiles ==
  (SaveRan /\ MAX_FILES >= 1) =>
    \A n \in SavedFiles :
      /\ n \in DOMAIN files
      /\ \E k \in SlotIds : n = SnapshotName(k, Greatest(SnapshotClocks))

\* C35 for the cycles that save at most MAX_FILES slots
SaveKeepsWrittenFilesWithinCap ==
  (SaveRan /\ MAX_FILES >= 1 /\ Cardinality(SavedFiles) <= MAX_FILES) =>
    \A n \in SavedFiles :
      /\ n \in DOMAIN files
      /\ \E k \in SlotIds : n = SnapshotName(k, Greatest(SnapshotClocks))

\* with MAX_FILES = 1 a save cycle saved slots 0 and 1, and its rotation
\* deleted one of the two files it had just written
RotationRemovedWrittenFile ==
  /\ SaveRan
  /\ MAX_FILES = 1
  /\ last.success_count = 2
  /\ \E d \in last.deleted : d.name \in SavedFiles
  /\ \E n \in SavedFiles : n \notin DOMAIN files

\* the snapshot files of the group of clock t in a directory
GroupNames(fs, t) == {n \in DOMAIN fs : \E k \in SlotIds : n = SnapshotName(k, t)}

\* C36: rotation removes snapshot groups as a whole: a group that is on
\* disk after a step holds every file it held before the step
RotationRemovesWholeGroups ==
  [][\A t \in 0..MaxTime :
       GroupNames(files', t) = {} \/ GroupNames(files, t) \subseteq GroupNames(files', t)]_vars

\* the rotation of a save cycle deleted the file of one slot of an older
\* group and left the file of the group's other slot on disk
PartialGroupLeft ==
  /\ SaveRan
  /\ \E d \in last.deleted :
     \E t \in SnapshotClocks :
       /\ d.name \in {SnapshotName(k, t) : k \in SlotIds}
       /\ d.name \notin SavedFiles
       /\ d.name \notin DOMAIN files
       /\ GroupNames(files, t) # {}

\* C37: a line the operator entered before the timeout fired determines the
\* selected session, for every interleaving of timeout_handler with the
\* main thread
OperatorChoiceWins ==
  (pc = "choose_base_name" /\ last.main = "done" /\ last.entered_first) =>
    base_name = SelectedSession(last.available_names, last.read)

\* what holds for every interleaving: the session is the one the operator's
\* line selects or the automatic choice of the timeout, and it is the
\* operator's when timeout_handler never ran
ChoiceIsOperatorsOrAutomatic ==
  (pc = "choose_base_name" /\ last.main = "done") =>
    /\ base_name \in {SelectedSession(last.available_names, last.read),
                      last.available_names[1]}
    /\ (last.read # <<>> /\ last.timer = "cancelled") =>
         base_name = SelectedSession(last.available_names, last.read)

\* the operator entered 2 before the timeout fired, timeout_handler tested
\* user_input_ready before the main thread set it, and the first session was
\* selected instead of the second
TimeoutReplacedChoice ==
  /\ pc = "choose_base_name"
  /\ last.main = "done"
  /\ last.entered_first
  /\ last.read = <<(<<"2">>)>>
  /\ Len(last.available_names) = 2
  /\ base_name = last.available_names[1]

\* the operator entered 2, the timer was cancelled before it fired, and the
\* second session was selected
OperatorChoiceTaken ==
  /\ pc = "choose_base_name"
  /\ last.main = "done"
  /\ last.read = <<(<<"2">>)>>
  /\ last.timer = "cancelled"
  /\ Len(last.available_names) = 2
  /\ base_name = last.available_names[2]


-----------------------------------------------------------------------------
(* Startup ordering of main()                                              *)

\* the positions of main() inside a save cycle or a backup cycle
InSaveOrBackup ==
  {"in_startup_backup", "in_named_backup", "in_save", "in_backup", "in_final_save"}

\* C38: no restore, save cycle or backup cycle is in progress unless
\* wait_for_server has returned True, and no save cycle or backup cycle is in
\* progress unless the load_cache of the startup has returned
StartupOrdering ==
  /\ (last.active # <<>> \/ pc \in InSaveOrBackup \cup {"in_load", "in_command_load"})
       => last.healthy
  /\ pc \in InSaveOrBackup => last.restored

\* C38, as steps: an operation is called only after the health check
\* succeeded, and a save cycle or backup cycle only after the startup restore
\* returned
StartupOrderingOfCalls ==
  [][last'.op = "call" =>
       /\ last.healthy
       /\ pc' \in InSaveOrBackup => last.restored]_vars

\* the first scheduled save cycle is in progress, after a successful health
\* check and the return of the startup restore
FirstSaveAfterRestore ==
  /\ pc = "in_save"
  /\ last.healthy
  /\ last.restored
  /\ last.active = <<"save">>
  /\ last_save_time = StartClock

\* the startup restore is in progress after a successful health check, and
\* nothing has been saved or backed up yet
StartupRestoreInProgress ==
  /\ pc = "in_load"
  /\ last.healthy
  /\ ~last.restored
  /\ last.active = <<"restore">>


-----------------------------------------------------------------------------
(* Shutdown of the loop of main()                                          *)

\* the positions of main() inside the loop of lines 1050-1080
SerialLoopPositions ==
  {"loop", "command", "in_named_backup", "in_command_load", "clock", "save", "in_save",
   "backup", "in_backup", "sleep"}

\* C39: once a first signal has cleared running while main() is in its loop,
\* the process eventually stops
ShutdownReachesStopped ==
  (~running /\ shutdown_signals_count >= 1 /\ pc \in SerialLoopPositions) ~> (pc = "stopped")

\* C39, the part about ticks: once running is cleared the loop starts no new
\* iteration
NoTickAfterSignal ==
  [][~running => ticks' = ticks]_vars

\* what holds when only calls and sleeps are known to return: the process
\* stops or is at the prompt of the interactive restore
ShutdownReachesStoppedOrPrompt ==
  (~running /\ shutdown_signals_count >= 1 /\ pc \in SerialLoopPositions)
    ~> (pc = "stopped" \/ AtPrompt)

\* the first signal was delivered while the prompt of the interactive restore
\* was waiting for the operator
SignalledAtPrompt ==
  /\ AtPrompt
  /\ ~running
  /\ shutdown_signals_count = 1
  /\ last.op = "signal"

\* the process stopped through the final save after one signal delivered in
\* the loop
StoppedAfterSignal ==
  /\ pc = "stopped"
  /\ shutdown_signals_count = 1
  /\ exit_code = <<0>>
  /\ ticks >= 1
  /\ last.op = "return"


-----------------------------------------------------------------------------
(* Exceptions inside an iteration of the loop of main()                    *)

\* C40: an exception raised by a command, a scheduled save cycle or a
\* scheduled backup cycle is caught by the loop: main() goes back to the loop
\* test, the process has not exited, running is as it was, and the two
\* timers are as they were, so that a save cycle that raised stays due
ErrorsCaughtByLoop ==
  [][last'.op = "raise" =>
       /\ pc \in {"in_command_load", "in_save", "in_backup"}
       /\ pc' = "loop"
       /\ running' = running
       /\ exit_code' = <<>>
       /\ last_save_time' = last_save_time
       /\ last_backup_time' = last_backup_time
       /\ pc = "in_save" => now' - last_save_time' >= SAVE_INTERVAL]_vars

\* C40, the later iterations: after a caught exception, while running is set
\* and the operator answers every prompt, a scheduled save cycle is called,
\* unless a signal clears running or the count of iterations is used up
SaveAfterCaughtError ==
  (last.op = "raise" /\ running)
    ~> (pc = "in_save" \/ ~running \/ (pc = "loop" /\ ticks = MaxSerialTicks))

\* the first iteration ended in the except clause, and the scheduled save
\* cycle of the second iteration is in progress five seconds after the start
SaveCalledAfterError ==
  /\ pc = "in_save"
  /\ ticks = 2
  /\ now = StartClock + ErrorSleep
  /\ running
  /\ exit_code = <<>>

\* a scheduled save cycle has just raised and main() is back at the loop test
SaveErrorCaught ==
  /\ last.op = "raise"
  /\ pc = "loop"
  /\ running
  /\ last.started # <<>>
  /\ last.started[Len(last.started)] = "in_save"

=============================================================================
